---------------------------- MODULE Spec2Model ----------------------------
(***************************************************************************)
(* A model of the delirium IR front-end: addresses and byte regions        *)
(* (ir/memory), basic blocks (ir/block), the ECode branch classifier and   *)
(* the block lifter (lift), the variable-alias normalisation pass          *)
(* (lift/passes/aliases.rs) and the project's block index (ir/project).    *)
(*                                                                         *)
(* Bit-vectors are records [bits, val] with 0 <= val < 2^bits.  Machine    *)
(* widths are scaled down (AddrBits for an address, UsizeBits for a host   *)
(* usize) so that wrap-around happens inside the explored range.           *)
(***************************************************************************)
EXTENDS Integers, Sequences, FiniteSets, TLC

VARIABLES
    region,     \* the Region under test
    rio,        \* the region call made and its result
    blk,        \* the parent Entity<Blk>
    children,   \* the Entity<Blk>s returned by the splits, oldest first
    next_uuid,  \* the uuids minted so far (Id::new)
    bop,        \* the block call made, with the defs and jmps it found
    memory,         \* Project::memory: the regions mapped, in insertion order
    blks,           \* Project::blks: Id<Blk> -> Entity<Blk>
    blks_to_addr,   \* Project::blks_to_addr
    addr_to_blks,   \* Project::addr_to_blks
    pc,         \* "idle"; inside lift_blk_with: "loop", then "return"
    call,       \* the call in progress or last made: caller, addr, sizes
    offset,     \* lift_blk_with: offset
    stmts,      \* lift_blk_with: stmts
    lifts,      \* the backend lift_ecode calls of this call and their outcomes
    ret,        \* what the last call returned
    alias,      \* the alias pass: the ECode given, the ECode now, passes applied
    aop,        \* the Address operation made, its operands and its result
    ent,        \* two Entities, the call made on them, and how they compared
    fresh,      \* UNIQUE_VAR, and the Var::fresh calls of each thread
    enc         \* the ECodeVarIndex::enclosing call made and its result

regionVars == <<region, rio>>
blkVars == <<blk, children, next_uuid, bop>>
projectVars == <<memory, blks, blks_to_addr, addr_to_blks>>
liftVars == <<pc, call, offset, stmts, lifts, ret>>
vars == <<regionVars, blkVars, projectVars, liftVars, alias, aop, ent, fresh, enc>>

notRegionVars == <<blkVars, projectVars, liftVars, alias, aop, ent, fresh, enc>>
notBlkVars == <<regionVars, projectVars, liftVars, alias, aop, ent, fresh, enc>>
notLiftVars == <<regionVars, blkVars, alias, aop, ent, fresh, enc>>
notAliasVars == <<regionVars, blkVars, projectVars, liftVars, aop, ent, fresh, enc>>
notAddrVars == <<regionVars, blkVars, projectVars, liftVars, alias, ent, fresh, enc>>
notEntVars == <<regionVars, blkVars, projectVars, liftVars, alias, aop, fresh, enc>>
notFreshVars == <<regionVars, blkVars, projectVars, liftVars, alias, aop, ent, enc>>
notEncVars == <<regionVars, blkVars, projectVars, liftVars, alias, aop, ent, fresh>>

----------------------------------------------------------------------------
(* Bounds of the model                                                     *)

\* width in bits of the addresses of a region
AddrBits == 3
\* width in bits of the host usize (always wider than an address here)
UsizeBits == 5
\* longest byte buffer of a region
MaxRegionLen == 3
\* widest bit-vector written to or read from a region
MaxBvBits == 16
\* most defs and most jmps a block is given, and most splits of one block
MaxDefs == 3
MaxJmps == 2
MaxSplits == 2
\* most phis a block is given
MaxPhis == 1
\* longest byte view handed to lift_blk_with, and longest decoded instruction
MaxLiftBytes == 3
MaxInsLen == 2
\* most regions mapped into a project
MaxRegions == 1
\* highest byte offset of a variable the alias pass sees
MaxVarOffset == 2
\* most statements of an ECode block given to the alias pass
MaxStmts == 2
\* most Blks the lifter returns from one call, and most Blks of a project
MaxLifted == 2
MaxBlks == 4
\* highest uuid of an Id and highest value an Entity holds
MaxUuid == 2
MaxValue == 2
\* width in bits of the UNIQUE_VAR counter, threads calling Var::fresh, and
\* most Var::fresh calls made
CounterBits == 2
MaxThreads == 2
MaxCalls == 5
\* most variables inserted into an index before enclosing is called
MaxIndexed == 3
\* most applications of the alias pass to one block
MaxPasses == 2
\* widest Address of the arithmetic operations
MaxAddrWidth == 3

----------------------------------------------------------------------------
(* Bit-vector arithmetic (fugue BitVec, as used by the repository)          *)

Pow2(n) == 2 ^ n

Min(a, b) == IF a <= b THEN a ELSE b
Max(a, b) == IF a >= b THEN a ELSE b

RECURSIVE BitAnd(_, _, _)
BitAnd(x, y, n) ==
    IF n = 0 THEN 0
    ELSE (x % 2) * (y % 2) + 2 * BitAnd(x \div 2, y \div 2, n - 1)

RECURSIVE BitOr(_, _, _)
BitOr(x, y, n) ==
    IF n = 0 THEN 0
    ELSE Max(x % 2, y % 2) + 2 * BitOr(x \div 2, y \div 2, n - 1)

BitNot(x, n) == Pow2(n) - 1 - x

BV(bits, val) == [bits |-> bits, val |-> val % Pow2(bits)]

\* BitVec::max_value_with(bits, false)
BvMaxValue(bits) == BV(bits, Pow2(bits) - 1)
\* bv >> n and bv << n at the width of bv
BvShr(bv, n) == BV(bv.bits, bv.val \div Pow2(n))
BvShl(bv, n) == BV(bv.bits, bv.val * Pow2(n))
BvAnd(a, b) == BV(a.bits, BitAnd(a.val, b.val, a.bits))
BvOr(a, b) == BV(a.bits, BitOr(a.val, b.val, a.bits))
BvNot(a) == BV(a.bits, BitNot(a.val, a.bits))
\* bv.cast(bits) / bv.unsigned_cast(bits) of an unsigned value: truncate or
\* zero-extend
BvCast(bv, bits) == BV(bits, bv.val)

RECURSIVE FromLeBytes(_)
FromLeBytes(bytes) ==
    IF bytes = <<>> THEN 0 ELSE Head(bytes) + 256 * FromLeBytes(Tail(bytes))

RECURSIVE FromBeBytes(_)
FromBeBytes(bytes) ==
    IF bytes = <<>> THEN 0
    ELSE Head(bytes) * Pow2(8 * (Len(bytes) - 1)) + FromBeBytes(Tail(bytes))

BvFromLeBytes(bytes) == BV(8 * Len(bytes), FromLeBytes(bytes))
\* from_be_bytes, variant: the first byte is taken as the least significant
BvFromBeBytes_FirstLeast(bytes) == BV(8 * Len(bytes), FromLeBytes(bytes))

BvFromBeBytes(bytes) == BV(8 * Len(bytes), FromBeBytes(bytes))

\* bv.to_le_bytes(buf) / bv.to_be_bytes(buf) for a buffer of n bytes
ToLeBytes(bv, n) == [i \in 1..n |-> (bv.val \div Pow2(8 * (i - 1))) % 256]
ToBeBytes(bv, n) == [i \in 1..n |-> (bv.val \div Pow2(8 * (n - i))) % 256]

----------------------------------------------------------------------------
(* Addr: an unsigned bit-vector of width > 0 (ir/memory/address.rs)         *)

Addr(bits, val) == BV(bits, val)

\* &Address + usize: the usize is truncated to the address width
AddrAddUsize(a, n) == Addr(a.bits, a.val + (n % Pow2(a.bits)))

\* &Address + &Address and &Address - &Address: operands zero-extended to the
\* wider width, result wrapped at that width
AddrAdd(a, b) == Addr(Max(a.bits, b.bits), a.val + b.val)
AddrSub(a, b) ==
    LET w == Max(a.bits, b.bits)
    IN  Addr(w, a.val - b.val + Pow2(w))

\* Ord for Address: compared after zero-extension to the wider width
AddrLe(a, b) == a.val <= b.val
AddrLt(a, b) == a.val < b.val

\* BitVec::to_usize: None when the value does not fit the host usize
ToUsize(bv) == IF bv.val < Pow2(UsizeBits) THEN bv.val ELSE -1

absolute_difference(a, b) ==
    IF AddrLe(b, a) THEN ToUsize(AddrSub(a, b)) ELSE ToUsize(AddrSub(b, a))

\* One::one() for Address: the 1-bit address of value 1
AddrOne == Addr(1, 1)

----------------------------------------------------------------------------
(* Interval<Addr> (intervals crate): closed [start, end]; a half-open Rust  *)
(* range a..b converts to [a, b - 1]                                        *)

IntervalFromRange(a, b) == [start |-> a, end |-> AddrSub(b, AddrOne)]

contains_point(iv, p) == AddrLe(iv.start, p) /\ AddrLe(p, iv.end)

----------------------------------------------------------------------------
(* Region (ir/memory/region.rs)                                             *)

Endians == {"LE", "BE"}

\* Region::new_with panics for an empty buffer or a range that wraps
RegionNewPanics(address, bytes) ==
    \/ Len(bytes) = 0
    \/ AddrLe(AddrAddUsize(address, Len(bytes)), address)

\* Region::new_with, when it does not panic
RegionNewWith(address, endian, bytes) ==
    LET last_address == AddrAddUsize(address, Len(bytes))
    IN  [range  |-> IntervalFromRange(address, last_address),
         endian |-> endian,
         bytes  |-> bytes]

contains_range(r, address, count) ==
    /\ count > 0
    /\ contains_point(r.range, address)
    /\ contains_point(r.range, AddrAddUsize(address, count - 1))

\* The body shared by view_bytes and view_bytes_mut; oob is the error of the
\* failed range check.  "panic" is Rust's slice index out of range.
ViewWith(r, address, count, oob) ==
    IF ~contains_range(r, address, count) THEN [tag |-> oob]
    ELSE LET off == absolute_difference(address, r.range.start)
         IN  IF off = -1 THEN [tag |-> "Range"]
             ELSE IF off + count > Len(r.bytes) THEN [tag |-> "panic"]
             ELSE [tag   |-> "Ok",
                   off   |-> off,
                   bytes |-> SubSeq(r.bytes, off + 1, off + count)]

\* Region::view_bytes_from: the bytes from `address` to the end of the region
view_bytes_from(r, address) ==
    IF ~contains_point(r.range, address) THEN [tag |-> "OOBRead"]
    ELSE LET off == absolute_difference(address, r.range.start)
         IN  IF off = -1 THEN [tag |-> "Range"]
             ELSE [tag   |-> "Ok",
                   off   |-> off,
                   bytes |-> SubSeq(r.bytes, off + 1, Len(r.bytes))]

view_bytes(r, address, count) == ViewWith(r, address, count, "OOBRead")
view_bytes_mut(r, address, count) == ViewWith(r, address, count, "OOBWrite")

ByteCount(bits) == (bits \div 8) + (IF bits % 8 = 0 THEN 0 ELSE 1)

ReadShiftBE_KeepLow(bits) == 0

ReadShiftBE(bits) == 8 - (bits % 8)

read_bits(r, address, bits) ==
    LET aligned == bits % 8 = 0
        count   == ByteCount(bits)
        range   == view_bytes(r, address, count)
    IN  IF range.tag # "Ok" THEN range
        ELSE LET bv == IF r.endian = "LE" THEN BvFromLeBytes(range.bytes)
                       ELSE BvFromBeBytes(range.bytes)
             IN  IF aligned THEN [tag |-> "Ok", bv |-> bv]
                 ELSE IF r.endian = "LE"
                      THEN [tag |-> "Ok", bv |-> BvCast(bv, bits)]
                      ELSE [tag |-> "Ok",
                            bv  |-> BvCast(BvShr(bv, ReadShiftBE(bits)), bits)]

\* the bytes that write_bits stores into the covering range
WriteUnalignedLE(range, bv, nbits, shift) ==
    LET mask == BvShr(BvMaxValue(nbits), shift)
        orig == BvAnd(BvFromLeBytes(range), BvNot(mask))
        nbv  == BvOr(BvAnd(BvCast(bv, nbits), mask), orig)
    IN  ToLeBytes(nbv, Len(range))

WriteUnalignedBE_NoPreserve(range, bv, nbits, shift) ==
    ToBeBytes(BvShl(BvCast(bv, nbits), shift), Len(range))

WriteUnalignedBE(range, bv, nbits, shift) ==
    LET mask == BvShl(BvMaxValue(nbits), shift)
        orig == BvAnd(BvFromBeBytes(range), BvNot(mask))
        nbv  == BvOr(BvAnd(BvShl(BvCast(bv, nbits), shift), mask), orig)
    IN  ToBeBytes(nbv, Len(range))

\* the buffer with the `count` bytes from offset `off` replaced by `new`
Splice(bytes, off, new) ==
    [i \in 1..Len(bytes) |->
        IF i > off /\ i <= off + Len(new) THEN new[i - off] ELSE bytes[i]]

write_bits(r, address, bv) ==
    LET bits    == bv.bits
        aligned == bits % 8 = 0
        count   == ByteCount(bits)
        range   == view_bytes_mut(r, address, count)
    IN  IF range.tag # "Ok" THEN [tag |-> range.tag, bytes |-> r.bytes]
        ELSE LET nbits == count * 8
                 shift == 8 - (bits % 8)
                 new   == IF aligned
                          THEN IF r.endian = "LE" THEN ToLeBytes(bv, count)
                               ELSE ToBeBytes(bv, count)
                          ELSE IF r.endian = "LE"
                               THEN WriteUnalignedLE(range.bytes, bv, nbits, shift)
                               ELSE WriteUnalignedBE(range.bytes, bv, nbits, shift)
             IN  [tag |-> "Ok", bytes |-> Splice(r.bytes, range.off, new)]

----------------------------------------------------------------------------
(* Inputs of the region operations                                          *)

\* query addresses: the region's width and one bit wider
QueryAddrs ==
    { Addr(AddrBits, v) : v \in 0..(Pow2(AddrBits) - 1) }
        \cup { Addr(AddrBits + 1, v) : v \in {Pow2(AddrBits), Pow2(AddrBits) + 1} }

\* host-sized counts, some beyond what an address can represent
Counts == 0..(Pow2(AddrBits) + 2)

\* an asymmetric byte pattern
PatternBytes == <<90, 195, 129, 36>>

InitBytes(n) ==
    { [i \in 1..n |-> 0], [i \in 1..n |-> 255], [i \in 1..n |-> PatternBytes[((i - 1) % 4) + 1]] }

RECURSIVE Alternating(_, _)
Alternating(bits, first) ==
    IF bits = 0 THEN 0 ELSE first + 2 * Alternating(bits - 1, 1 - first)

\* bit-vectors of one width: all zeroes, all ones, 0101.. and 1010..
BvPatterns(bits) ==
    { BV(bits, 0), BV(bits, Pow2(bits) - 1),
      BV(bits, Alternating(bits, 0)), BV(bits, Alternating(bits, 1)) }

RegionStarts == {1, Pow2(AddrBits) - MaxRegionLen, Pow2(AddrBits) - 2}
\* where the regions of a project start
ProjectStarts == {1, Pow2(AddrBits) - 2}

Regions ==
    { RegionNewWith(Addr(AddrBits, x[1]), x[2], x[3]) : x \in
      { y \in RegionStarts \X Endians \X UNION { InitBytes(n) : n \in 1..MaxRegionLen } :
          ~RegionNewPanics(Addr(AddrBits, y[1]), y[3]) } }


NoRio == [op |-> "none"]

RegionInit ==
    /\ region \in Regions
    /\ rio = NoRio

RegionIdle ==
    /\ region = RegionNewWith(Addr(AddrBits, 1), "LE", <<0>>)
    /\ rio = NoRio

----------------------------------------------------------------------------
(* Blk (ir/block/mod.rs), Jmp (ir/effect/mod.rs), Entity and Id             *)

None == -1

\* Entity::new(tag, value) with the uuid that Id::new mints
Entity(uuid, value) == [id |-> uuid, value |-> value]

\* Blk::new_with
BlkNewWith(addr, phis, defs, jmps) ==
    [addr |-> addr, phis |-> phis, defs |-> defs, jmps |-> jmps]

\* Jmp::branch(id): Branch(Loc::Resolved(id))
JmpBranch(id) == [kind |-> "Branch", loc |-> [kind |-> "Resolved", id |-> id]]

\* the Entity<Jmp>s a caller holds: a return and a conditional branch to an
\* address
AddedJmps ==
    { Entity(101, [kind |-> "Return", loc |-> [kind |-> "Fixed", addr |-> 0]]),
      Entity(102, [kind |-> "CBranch", loc |-> [kind |-> "Fixed", addr |-> 1]]) }

\* the ids of the Entity<Def>s a caller holds; a def may be added twice (a
\* clone keeps its id)
DefIds == {11, 12}

\* defs.iter().position(|def| def.id() == id)
PositionLast(defs, id) ==
    IF \E i \in 1..Len(defs) : defs[i].id = id
    THEN (CHOOSE i \in 1..Len(defs) :
            /\ defs[i].id = id
            /\ \A j \in (i + 1)..Len(defs) : defs[j].id # id) - 1
    ELSE None

Position(defs, id) ==
    IF \E i \in 1..Len(defs) : defs[i].id = id
    THEN (CHOOSE i \in 1..Len(defs) :
            /\ defs[i].id = id
            /\ \A j \in 1..(i - 1) : defs[j].id # id) - 1
    ELSE None

\* split_off, variant: a position of None is taken as 0
split_off_NoneAsTop(b, pos, uuid) ==
    LET at   == IF pos # None THEN pos ELSE 0
        nblk == Entity(uuid, BlkNewWith(None, <<>>,
                                        SubSeq(b.defs, at + 1, Len(b.defs)), b.jmps))
    IN  [parent |-> [b EXCEPT !.defs = SubSeq(b.defs, 1, at),
                              !.jmps = <<Entity(uuid + 1, JmpBranch(nblk.id))>>],
         child  |-> nblk]

\* split_off, variant: the jmps are cloned into the child and stay in the
\* parent
split_off_CloneJmps(b, pos, uuid) ==
    LET ndefs  == IF pos # None THEN SubSeq(b.defs, pos + 1, Len(b.defs)) ELSE <<>>
        kept   == IF pos # None THEN SubSeq(b.defs, 1, pos) ELSE b.defs
        nblk   == Entity(uuid, BlkNewWith(None, <<>>, ndefs, b.jmps))
    IN  [parent |-> [b EXCEPT !.defs = kept,
                              !.jmps = Append(b.jmps,
                                              Entity(uuid + 1, JmpBranch(nblk.id)))],
         child  |-> nblk]

\* Blk::split_off(pos): the parent after the call and the child returned;
\* the child's Id and the new Branch's Id are minted in this order
split_off(b, pos, uuid) ==
    LET ndefs  == IF pos # None THEN SubSeq(b.defs, pos + 1, Len(b.defs)) ELSE <<>>
        kept   == IF pos # None THEN SubSeq(b.defs, 1, pos) ELSE b.defs
        nblk   == Entity(uuid, BlkNewWith(None, <<>>, ndefs, b.jmps))
    IN  [parent |-> [b EXCEPT !.defs = kept,
                              !.jmps = <<Entity(uuid + 1, JmpBranch(nblk.id))>>],
         child  |-> nblk]

BlkInit ==
    /\ blk = Entity(1, BlkNewWith(0, <<>>, <<>>, <<>>))
    /\ children = <<>>
    /\ next_uuid = 2
    /\ bop = [op |-> "new"]

BlkIdle == BlkInit

\* Blk::add_def (the block is built before it is split)
AddDef(d) ==
    /\ children = <<>>
    /\ Len(blk.value.defs) < MaxDefs
    /\ blk' = [blk EXCEPT !.value.defs = Append(@, Entity(d, "def"))]
    /\ bop' = [op |-> "add_def"]
    /\ UNCHANGED <<children, next_uuid>>
    /\ UNCHANGED notBlkVars

\* Blk::add_phi
AddPhi(p) ==
    /\ children = <<>>
    /\ Len(blk.value.phis) < MaxPhis
    /\ blk' = [blk EXCEPT !.value.phis = Append(@, Entity(p, "phi"))]
    /\ bop' = [op |-> "add_phi"]
    /\ UNCHANGED <<children, next_uuid>>
    /\ UNCHANGED notBlkVars

\* Blk::add_jmp
AddJmp(j) ==
    /\ children = <<>>
    /\ Len(blk.value.jmps) < MaxJmps
    /\ blk' = [blk EXCEPT !.value.jmps = Append(@, j)]
    /\ bop' = [op |-> "add_jmp"]
    /\ UNCHANGED <<children, next_uuid>>
    /\ UNCHANGED notBlkVars

\* a split of the parent; built is the block as it was before its first
\* split
Split(op, arg, pos) ==
    /\ Len(children) < MaxSplits
    /\ LET r == split_off(blk.value, pos, next_uuid)
       IN  /\ blk' = [blk EXCEPT !.value = r.parent]
           /\ children' = Append(children, r.child)
           /\ bop' = [op |-> op, arg |-> arg, pos |-> pos,
                      defs |-> blk.value.defs, jmps |-> blk.value.jmps,
                      child |-> r.child,
                      built |-> IF children = <<>> THEN blk.value ELSE bop.built]
    /\ next_uuid' = next_uuid + 2
    /\ UNCHANGED notBlkVars

SplitTop == Split("split_top", None, 0)

SplitBottom == Split("split_bottom", None, Len(blk.value.defs))

SplitBefore(d) == Split("split_before", d, Position(blk.value.defs, d))

SplitAfter(d) ==
    Split("split_after", d,
          LET pos == Position(blk.value.defs, d)
          IN  IF pos # None THEN pos + 1 ELSE None)

BlkNext ==
    \/ \E d \in DefIds : AddDef(d)
    \/ \E j \in AddedJmps : AddJmp(j)
    \/ AddPhi(21)
    \/ SplitTop
    \/ SplitBottom
    \/ \E d \in DefIds : SplitBefore(d)
    \/ \E d \in DefIds : SplitAfter(d)



ViewBytes(address, count) ==
    /\ rio.op = "none"
    /\ rio' = [op |-> "view_bytes", address |-> address, count |-> count,
               result |-> view_bytes(region, address, count)]
    /\ UNCHANGED region
    /\ UNCHANGED notRegionVars

ViewBytesMut(address, count) ==
    /\ rio.op = "none"
    /\ rio' = [op |-> "view_bytes_mut", address |-> address, count |-> count,
               result |-> view_bytes_mut(region, address, count)]
    /\ UNCHANGED region
    /\ UNCHANGED notRegionVars

ReadBits(address, bits) ==
    /\ rio.op = "none"
    /\ rio' = [op |-> "read_bits", address |-> address, bits |-> bits,
               result |-> read_bits(region, address, bits)]
    /\ UNCHANGED region
    /\ UNCHANGED notRegionVars

WriteBits(address, bv) ==
    /\ rio.op = "none"
    /\ LET w == write_bits(region, address, bv)
       IN  /\ region' = [region EXCEPT !.bytes = w.bytes]
           /\ rio' = [op |-> "write_bits", address |-> address, bv |-> bv,
                      before |-> region.bytes, result |-> [tag |-> w.tag]]
    /\ UNCHANGED notRegionVars

\* read_bits of the range a successful write_bits has just written
ReadBack ==
    /\ rio.op = "write_bits"
    /\ rio.result.tag = "Ok"
    /\ rio' = [op |-> "read_back", address |-> rio.address, bv |-> rio.bv,
               before |-> rio.before,
               result |-> read_bits(region, rio.address, rio.bv.bits)]
    /\ UNCHANGED region
    /\ UNCHANGED notRegionVars

\* Region::new / Region::new_with called with a buffer; a panic leaves no
\* Region behind
RegionNew(address, endian, bytes) ==
    /\ rio.op = "none"
    /\ IF RegionNewPanics(address, bytes)
       THEN /\ rio' = [op |-> "new", address |-> address, count |-> Len(bytes),
                       result |-> "panic"]
            /\ UNCHANGED region
       ELSE /\ rio' = [op |-> "new", address |-> address, count |-> Len(bytes),
                       result |-> "Ok"]
            /\ region' = RegionNewWith(address, endian, bytes)
    /\ UNCHANGED notRegionVars

\* every address of widths 1..AddrBits, and buffers up to past the address
\* space of the widest
RegionNewNext ==
    \E w \in 1..AddrBits, e \in Endians, n \in 0..(Pow2(AddrBits) + 2) :
        \E v \in 0..(Pow2(w) - 1), bytes \in InitBytes(n) :
            RegionNew(Addr(w, v), e, bytes)

RegionNext ==
    \/ \E a \in QueryAddrs, c \in Counts : ViewBytes(a, c)
    \/ \E a \in QueryAddrs, c \in Counts : ViewBytesMut(a, c)
    \/ \E a \in QueryAddrs, b \in 0..MaxBvBits : ReadBits(a, b)
    \/ \E a \in QueryAddrs, b \in 1..MaxBvBits :
          \E bv \in BvPatterns(b) : WriteBits(a, bv)
    \/ ReadBack


----------------------------------------------------------------------------
(* The branch classifier (lift/ecode/utils.rs)                              *)

Location(address, position) == [address |-> address, position |-> position]

\* BranchTarget::Location(loc) and BranchTarget::Computed(expr); a computed
\* expression is a value that fits u64, a value that does not, or not a value
TgtLocation(address, position) ==
    [kind |-> "Location", loc |-> Location(address, position)]
TgtVal(v) == [kind |-> "Computed", expr |-> [kind |-> "Val", u64 |-> v]]
TgtBigVal == [kind |-> "Computed", expr |-> [kind |-> "Val", u64 |-> None]]
TgtVar == [kind |-> "Computed", expr |-> [kind |-> "Var", u64 |-> None]]

StmtAssign == [kind |-> "Assign", tgt |-> None]
StmtIntrinsic == [kind |-> "Intrinsic", tgt |-> None]
StmtBranch(tgt) == [kind |-> "Branch", tgt |-> tgt]
StmtCBranch(tgt) == [kind |-> "CBranch", tgt |-> tgt]
StmtCall(tgt) == [kind |-> "Call", tgt |-> tgt]
StmtReturn(tgt) == [kind |-> "Return", tgt |-> tgt]

\* ECodeTarget
Target(kind, tgt, last) == [kind |-> kind, tgt |-> tgt, last |-> last]

\* ends_block, variant: every InterRet ends the block
ends_block_AnyRet(t) ==
    \/ t.kind = "Unresolved"
    \/ t.kind = "InterBlk"
    \/ t.kind = "InterRet"

ends_block(t) ==
    \/ t.kind = "Unresolved"
    \/ t.kind = "InterBlk"
    \/ t.kind = "InterRet" /\ t.last

\* the closures of branch_targets, for an instruction at `address` whose
\* successor is at `naddress`
nlocation(i, address, naddress, op_count) ==
    IF i >= op_count THEN Location(naddress, i - op_count)
    ELSE Location(address, i)

\* nbranch, variant: a value equal to the next address is not recognised
nbranch_NoFallValue(tgt, address, naddress) ==
    IF tgt.kind = "Computed"
    THEN IF tgt.expr.kind = "Val"
         THEN IF tgt.expr.u64 # None
              THEN IF tgt.expr.u64 = address
                   THEN Target("IntraIns", Location(address, 0), FALSE)
                   ELSE Target("InterBlk", tgt, FALSE)
              ELSE Target("Unresolved", None, FALSE)
         ELSE Target("Unresolved", None, FALSE)
    ELSE IF tgt.loc.address = address
         THEN Target("IntraIns", tgt.loc, FALSE)
         ELSE IF tgt.loc.address = naddress
              THEN Target("IntraBlk", tgt.loc, FALSE)
              ELSE Target("InterBlk", tgt, FALSE)

nbranch(tgt, address, naddress) ==
    IF tgt.kind = "Computed"
    THEN IF tgt.expr.kind = "Val"
         THEN IF tgt.expr.u64 # None
              THEN IF tgt.expr.u64 = address
                   THEN Target("IntraIns", Location(address, 0), FALSE)
                   ELSE IF tgt.expr.u64 = naddress
                        THEN Target("IntraBlk", Location(naddress, 0), FALSE)
                        ELSE Target("InterBlk", tgt, FALSE)
              ELSE Target("Unresolved", None, FALSE)
         ELSE Target("Unresolved", None, FALSE)
    ELSE IF tgt.loc.address = address
         THEN Target("IntraIns", tgt.loc, FALSE)
         ELSE IF tgt.loc.address = naddress
              THEN Target("IntraBlk", tgt.loc, FALSE)
              ELSE Target("InterBlk", tgt, FALSE)

nfall(fall, address) ==
    IF fall.address = address THEN Target("IntraIns", fall, FALSE)
    ELSE Target("IntraBlk", fall, FALSE)

\* StmtTargets, variant: a last statement without control flow gets no
\* fall-through edge
StmtTargets_NoLastFall(stmt, i, address, naddress, op_count) ==
    LET next == nlocation(i + 1, address, naddress, op_count)
    IN  CASE stmt.kind = "Branch" ->
               << <<i, nbranch(stmt.tgt, address, naddress)>> >>
          [] stmt.kind = "CBranch" ->
               << <<i, nbranch(stmt.tgt, address, naddress)>>,
                  <<i, nfall(next, address)>> >>
          [] stmt.kind = "Call" ->
               << <<i, Target("InterSub", stmt.tgt, FALSE)>>,
                  <<i, nfall(next, address)>> >>
          [] stmt.kind = "Return" ->
               << <<i, Target("InterRet", stmt.tgt, i + 1 = op_count)>> >>
          [] stmt.kind = "Intrinsic" ->
               << <<i, Target("Intrinsic", None, FALSE)>>,
                  <<i, nfall(next, address)>> >>
          [] OTHER -> <<>>

\* the edges pushed for the statement at 0-based index i
StmtTargets(stmt, i, address, naddress, op_count) ==
    LET next == nlocation(i + 1, address, naddress, op_count)
    IN  CASE stmt.kind = "Branch" ->
               << <<i, nbranch(stmt.tgt, address, naddress)>> >>
          [] stmt.kind = "CBranch" ->
               << <<i, nbranch(stmt.tgt, address, naddress)>>,
                  <<i, nfall(next, address)>> >>
          [] stmt.kind = "Call" ->
               << <<i, Target("InterSub", stmt.tgt, FALSE)>>,
                  <<i, nfall(next, address)>> >>
          [] stmt.kind = "Return" ->
               << <<i, Target("InterRet", stmt.tgt, i + 1 = op_count)>> >>
          [] stmt.kind = "Intrinsic" ->
               << <<i, Target("Intrinsic", None, FALSE)>>,
                  <<i, nfall(next, address)>> >>
          [] OTHER ->
               IF i + 1 = op_count THEN << <<i, nfall(next, address)>> >>
               ELSE <<>>

\* TargetsFrom, variant: the edges of later statements are put first
RECURSIVE TargetsFrom_LaterFirst(_, _, _, _)
TargetsFrom_LaterFirst(ops, i, address, naddress) ==
    IF i >= Len(ops) THEN <<>>
    ELSE TargetsFrom_LaterFirst(ops, i + 1, address, naddress)
            \o StmtTargets(ops[i + 1], i, address, naddress, Len(ops))

RECURSIVE TargetsFrom(_, _, _, _)
TargetsFrom(ops, i, address, naddress) ==
    IF i >= Len(ops) THEN <<>>
    ELSE StmtTargets(ops[i + 1], i, address, naddress, Len(ops))
            \o TargetsFrom(ops, i + 1, address, naddress)

\* ECodeExt::branch_targets
branch_targets(ecode) ==
    TargetsFrom(ecode.operations, 0, ecode.address, ecode.address + ecode.length)

\* ECode, as the backend returns it
ECode(address, length, operations) ==
    [address |-> address, length |-> length, operations |-> operations]

----------------------------------------------------------------------------
(* The backend (fugue Translator::lift_ecode): a black box.  What it may    *)
(* return for an instruction at `address` of `length` bytes.                *)

Far(address, length) == address + length + 1

InsPool(address, length) ==
    { \* a plain instruction: falls through
      << StmtAssign >>,
      \* ret: the sequence ends in a last-position Return
      << StmtAssign, StmtReturn(TgtVar) >>,
      << StmtReturn(TgtVar) >>,
      \* a Return that is not the last micro-op
      << StmtReturn(TgtVar), StmtAssign >>,
      \* jumps out of the block: fixed, indirect, and by value
      << StmtBranch(TgtLocation(Far(address, length), 0)) >>,
      << StmtBranch(TgtVar) >>,
      << StmtBranch(TgtVal(Far(address, length))) >>,
      << StmtBranch(TgtBigVal) >>,
      \* jumps to the next instruction: by value, and into its micro-ops
      << StmtBranch(TgtVal(address + length)) >>,
      << StmtCBranch(TgtLocation(address + length, 1)), StmtIntrinsic >>,
      \* rep stos: control flow local to the instruction
      << StmtCBranch(TgtLocation(address + length, 0)), StmtAssign,
         StmtBranch(TgtLocation(address, 0)) >>,
      << StmtAssign, StmtBranch(TgtVal(address)) >>,
      \* call: flow returns to the block
      << StmtCall(TgtLocation(Far(address, length), 0)) >> }

\* the instructions the backend decodes while a block is lifted: a plain
\* instruction, ret, a Return that is not last, a jump out of the block,
\* rep stos, and call
LiftPool(address, length) ==
    { << StmtAssign >>,
      << StmtAssign, StmtReturn(TgtVar) >>,
      << StmtReturn(TgtVar), StmtAssign >>,
      << StmtBranch(TgtLocation(Far(address, length), 0)) >>,
      << StmtCBranch(TgtLocation(address + length, 0)), StmtAssign,
         StmtBranch(TgtLocation(address, 0)) >>,
      << StmtCall(TgtLocation(Far(address, length), 0)) >> }

\* the placeholder carried by a failed lift_ecode call
NoECode == ECode(0, 0, <<>>)

\* every outcome of one lift_ecode call: a decode failure, or an instruction
BackendResponses(address) ==
    { [ok |-> FALSE, ecode |-> NoECode] }
        \cup UNION { { [ok |-> TRUE, ecode |-> ECode(address, n, ops)] :
                          ops \in LiftPool(address, n) } : n \in 1..MaxInsLen }

----------------------------------------------------------------------------
(* Lifter::lift_blk_with (lift/mod.rs)                                      *)

\* u64::try_from(Addr): None when the address does not fit the backend's
\* u64 (as wide as the host usize)
U64TryFrom(a) == IF a.val < Pow2(UsizeBits) THEN a.val ELSE None

\* attempt_size = size_hint.map(|hint| actual_size.min(hint)).unwrap_or(actual_size)
AttemptSize(actual_size, size_hint) ==
    IF size_hint # None THEN Min(actual_size, size_hint) ELSE actual_size

\* should_stop: some classified target ends the block
ShouldStop(targets) ==
    \E k \in 1..Len(targets) : ends_block(targets[k][2])

\* offset += length
AdvanceStalled(off, length) == off

Advance(off, length) == off + length

\* the Vec<Entity<Blk>> lift_blk_with returns: `blks` is created empty and
\* nothing is pushed onto it
LiftedBlks(recorded) == <<>>

NoCall == [caller |-> "none", addr |-> Addr(AddrBits, 0), actual_size |-> 0,
           size_hint |-> None, attempt_size |-> 0]

LiftIdle ==
    /\ pc = "idle"
    /\ call = NoCall
    /\ offset = 0
    /\ stmts = <<>>
    /\ lifts = <<>>
    /\ ret = [tag |-> "none", blks |-> <<>>, ids |-> <<>>]

\* Entry into lift_blk_with; a view of no bytes (or a hint of 0) returns at
\* once
EnterLift(caller, addr, actual_size, size_hint) ==
    LET attempt_size == AttemptSize(actual_size, size_hint)
    IN  /\ call' = [caller |-> caller, addr |-> addr, actual_size |-> actual_size,
                    size_hint |-> size_hint, attempt_size |-> attempt_size]
        /\ offset' = 0
        /\ stmts' = <<>>
        /\ lifts' = <<>>
        /\ pc' = IF 0 < attempt_size THEN "loop" ELSE "return"
        /\ ret' = [tag |-> "none", blks |-> <<>>, ids |-> <<>>]

\* One iteration of the while loop: convert the address, ask the backend,
\* classify; the loop is left by the conversion error, a decode failure, a
\* block-ending target, or the loop condition.
LiftIns ==
    /\ pc = "loop"
    /\ LET taddr == U64TryFrom(AddrAddUsize(call.addr, offset))
       IN  IF taddr = None
           THEN /\ pc' = "idle"
                /\ ret' = [tag |-> "AddrSize", blks |-> <<>>, ids |-> <<>>]
                /\ UNCHANGED <<offset, stmts, lifts>>
           ELSE \E resp \in BackendResponses(taddr) :
                  IF resp.ok
                  THEN LET targets == branch_targets(resp.ecode)
                           should_stop == ShouldStop(targets)
                       IN  /\ lifts' = Append(lifts,
                                  [offset |-> offset, ok |-> TRUE,
                                   ecode |-> resp.ecode, stop |-> should_stop])
                           /\ IF should_stop
                              THEN /\ pc' = "return"
                                   /\ UNCHANGED <<offset, stmts>>
                              ELSE /\ stmts' = Append(stmts, <<resp.ecode, targets>>)
                                   /\ offset' = Advance(offset, resp.ecode.length)
                                   /\ pc' = IF offset' < call.attempt_size
                                            THEN "loop" ELSE "return"
                           /\ UNCHANGED ret
                  ELSE /\ lifts' = Append(lifts,
                              [offset |-> offset, ok |-> FALSE,
                               ecode |-> NoECode, stop |-> FALSE])
                       /\ pc' = "return"
                       /\ UNCHANGED <<offset, stmts, ret>>
    /\ UNCHANGED <<call, projectVars>>
    /\ UNCHANGED notLiftVars

\* lift_blk_with called directly
LiftBlkWith(addr, actual_size, size_hint) ==
    /\ pc = "idle"
    /\ EnterLift("lift_blk_with", addr, actual_size, size_hint)
    /\ UNCHANGED projectVars
    /\ UNCHANGED notLiftVars

\* branch_targets applied to one lifted instruction, as the loop body does
\* (lift/mod.rs:177-183), outside a lift_blk_with call
ClassifyIns(address, length, ops) ==
    /\ pc = "idle"
    /\ LET ecode == ECode(address, length, ops)
       IN  lifts' = << [offset |-> 0, ok |-> TRUE, ecode |-> ecode,
                        stop |-> ShouldStop(branch_targets(ecode))] >>
    /\ UNCHANGED <<pc, call, offset, stmts, ret>>
    /\ UNCHANGED projectVars
    /\ UNCHANGED notLiftVars

ClassifyNext ==
    \E address \in 0..(MaxLiftBytes + 1), length \in 1..MaxInsLen :
        \E ops \in InsPool(address, length) : ClassifyIns(address, length, ops)

----------------------------------------------------------------------------
(* Mem (ir/memory/mod.rs) and Project (ir/project/mod.rs)                   *)

\* Mem::find_region: the regions whose interval contains addr (the interval
\* map returns one of them)
find_region(mem, addr) ==
    { i \in 1..Len(mem) : contains_point(mem[i].range, addr) }

\* BTreeMap::insert; Addr keys are ordered by value (Ord for Address)
MapInsert(map, k, v) == (k :> v) @@ map

EmptyMap == <<>>

RECURSIVE InsertAll(_, _)
InsertAll(map, entities) ==
    IF entities = <<>> THEN map
    ELSE InsertAll(MapInsert(map, Head(entities).id, Head(entities)), Tail(entities))

\* the second half of add_blk, variant: indexes the address even for an empty
\* lift result
AddBlkIndex_AlwaysIndex(p, addr, lifted) ==
    [blks         |-> InsertAll(p.blks, lifted),
     blks_to_addr |-> MapInsert(p.blks_to_addr, 0, addr),
     addr_to_blks |-> MapInsert(p.addr_to_blks, addr.val, 0),
     ids          |-> [i \in 1..Len(lifted) |-> lifted[i].id]]

\* the second half of add_blk: index the lifted Blks, unless there are none
AddBlkIndex(p, addr, lifted) ==
    IF lifted = <<>>
    THEN [blks |-> p.blks, blks_to_addr |-> p.blks_to_addr,
          addr_to_blks |-> p.addr_to_blks, ids |-> <<>>]
    ELSE LET blk_id == lifted[1].id
         IN  [blks         |-> InsertAll(p.blks, lifted),
              blks_to_addr |-> MapInsert(p.blks_to_addr, blk_id, addr),
              addr_to_blks |-> MapInsert(p.addr_to_blks, addr.val, blk_id),
              ids          |-> [i \in 1..Len(lifted) |-> lifted[i].id]]

\* Project::new: no regions, no blocks, no oracle
ProjectInit ==
    /\ memory = <<>>
    /\ blks = EmptyMap
    /\ blks_to_addr = EmptyMap
    /\ addr_to_blks = EmptyMap

\* the regions a caller maps
ProjectRegions ==
    { RegionNewWith(Addr(AddrBits, x[1]), "LE", [i \in 1..x[2] |-> 0]) : x \in
        { y \in ProjectStarts \X (1..MaxRegionLen) :
            ~RegionNewPanics(Addr(AddrBits, y[1]), [i \in 1..y[2] |-> 0]) } }

\* Project::add_region_mapping
AddRegionMapping(r) ==
    /\ pc = "idle"
    /\ Len(memory) < MaxRegions
    /\ memory' = Append(memory, r)
    /\ UNCHANGED <<blks, blks_to_addr, addr_to_blks>>
    /\ UNCHANGED liftVars
    /\ UNCHANGED notLiftVars

\* Project::add_blk up to the call of the lifter; blk_oracle is None, so
\* there is no size hint.  With no covering region the call returns at once.
AddBlk(addr) ==
    /\ pc = "idle"
    /\ IF find_region(memory, addr) = {}
       THEN /\ call' = [NoCall EXCEPT !.caller = "add_blk", !.addr = addr]
            /\ ret' = [tag |-> "Ok", blks |-> <<>>, ids |-> <<>>]
            /\ lifts' = <<>>
            /\ UNCHANGED <<pc, offset, stmts>>
       ELSE \E i \in find_region(memory, addr) :
               LET bytes == view_bytes_from(memory[i], addr).bytes
               IN  EnterLift("add_blk", addr, Len(bytes), None)
    /\ UNCHANGED projectVars
    /\ UNCHANGED notLiftVars

\* the Blks of a lift at addr: Entity<Blk>s with fresh ids; the ids in use
\* are 1..used
FreshBlks(addr, used, n) ==
    [i \in 1..n |-> Entity(used + i, BlkNewWith(addr.val, <<>>, <<>>, <<>>))]

\* Project::add_blk at a mapped address, for a lifter that returns Ok with n
\* Blks (project/mod.rs:132-165)
AddBlkLifted(addr, n) ==
    /\ pc = "idle"
    /\ find_region(memory, addr) # {}
    /\ Cardinality(DOMAIN blks) + n <= MaxBlks
    /\ LET p == [blks |-> blks, blks_to_addr |-> blks_to_addr,
                 addr_to_blks |-> addr_to_blks]
           lifted == FreshBlks(addr, Cardinality(DOMAIN blks), n)
           x == AddBlkIndex(p, addr, lifted)
       IN  /\ blks' = x.blks
           /\ blks_to_addr' = x.blks_to_addr
           /\ addr_to_blks' = x.addr_to_blks
           /\ ret' = [tag |-> "Ok", blks |-> <<>>, ids |-> x.ids]
    /\ call' = [NoCall EXCEPT !.caller = "add_blk", !.addr = addr]
    /\ lifts' = <<>>
    /\ UNCHANGED <<memory, pc, offset, stmts>>
    /\ UNCHANGED notLiftVars

\* lift_blk_with returns Ok(blks); add_blk then indexes the Blks
LiftReturn ==
    /\ pc = "return"
    /\ pc' = "idle"
    /\ LET lifted == LiftedBlks(stmts)
       IN  IF call.caller = "add_blk"
           THEN LET p == [blks |-> blks, blks_to_addr |-> blks_to_addr,
                          addr_to_blks |-> addr_to_blks]
                    n == AddBlkIndex(p, call.addr, lifted)
                IN  /\ blks' = n.blks
                    /\ blks_to_addr' = n.blks_to_addr
                    /\ addr_to_blks' = n.addr_to_blks
                    /\ ret' = [tag |-> "Ok", blks |-> <<>>, ids |-> n.ids]
           ELSE /\ ret' = [tag |-> "Ok", blks |-> lifted, ids |-> <<>>]
                /\ UNCHANGED <<blks, blks_to_addr, addr_to_blks>>
    /\ UNCHANGED <<memory, call, offset, stmts, lifts>>
    /\ UNCHANGED notLiftVars

\* addresses and sizes of the direct lift_blk_with calls: an address of the
\* usual width, and one so wide that addr + offset can leave the u64 range
LiftAddrs == { Addr(AddrBits, 1), Addr(UsizeBits + 1, Pow2(UsizeBits) - 2) }

SizeHints == {None} \cup 0..(MaxLiftBytes + 1)

LiftNext ==
    \/ \E a \in LiftAddrs, n \in 0..MaxLiftBytes, h \in SizeHints :
          LiftBlkWith(a, n, h)
    \/ LiftIns
    \/ LiftReturn

\* addresses blocks are added at: two of one width, and one that equals
\* the first at a greater width
IndexAddrs == { Addr(AddrBits, 1), Addr(AddrBits, 2), Addr(AddrBits + 1, 1) }

IndexNext ==
    \/ \E r \in ProjectRegions : AddRegionMapping(r)
    \/ \E a \in IndexAddrs, n \in 0..MaxLifted : AddBlkLifted(a, n)

ProjectNext ==
    \/ \E r \in ProjectRegions : AddRegionMapping(r)
    \/ \E a \in QueryAddrs : AddBlk(a)
    \/ LiftIns
    \/ LiftReturn

----------------------------------------------------------------------------
(* The alias normalisation pass (lift/passes/aliases.rs)                    *)
(*                                                                          *)
(* A variable is [space, offset, bits, generation]; it denotes bits/8 bytes *)
(* of its space from `offset`, least significant byte first.  Expressions   *)
(* are Val, Var, BinOp, Extract(e, lsb, msb) and Concat(high, low).         *)

ECodeVar(space, off, bits, generation) ==
    [space |-> space, offset |-> off, bits |-> bits, generation |-> generation]

ExprVal(bytes) == [kind |-> "Val", bytes |-> bytes]
ExprVar(var) == [kind |-> "Var", var |-> var]
ExprBinOp(l, r) == [kind |-> "BinOp", l |-> l, r |-> r]
extract(e, lsb, msb) == [kind |-> "Extract", e |-> e, lsb |-> lsb, msb |-> msb]
concat(l, r) == [kind |-> "Concat", l |-> l, r |-> r]
Assign(var, expr) == [kind |-> "Assign", var |-> var, expr |-> expr]

RECURSIVE ExprBits(_)
ExprBits(e) ==
    CASE e.kind = "Val" -> 8 * Len(e.bytes)
      [] e.kind = "Var" -> e.var.bits
      [] e.kind = "BinOp" -> ExprBits(e.l)
      [] e.kind = "Extract" -> e.msb - e.lsb
      [] e.kind = "Concat" -> ExprBits(e.l) + ExprBits(e.r)

extract_low(e, bits) == extract(e, 0, bits)
extract_high(e, bits) == extract(e, ExprBits(e) - bits, ExprBits(e))

\* ECodeVarIndex::interval: Interval::from(offset..offset + bits/8)
\* (an Interval<u64>, closed: the range a..b is [a, b - 1])
interval(var) ==
    [start |-> var.offset, end |-> var.offset + var.bits \div 8 - 1]

\* the backend's register table: (offset, size) of EAX, AX, AL, AH
RegisterTable == { <<0, 4>>, <<0, 2>>, <<0, 1>>, <<1, 1>> }

\* ECodeVarIndex::registers: Interval::from(off..=(off + sz))
registers ==
    [space_id |-> "register",
     index    |-> { [start |-> r[1], end |-> r[1] + r[2]] : r \in RegisterTable }]

\* the fold of ECodeVarIndex::enclosing over the intervals find_all yields,
\* taken in ascending (start, end) order
RECURSIVE EnclosingFold(_, _)
EnclosingFold(found, iv) ==
    IF found = {} THEN iv
    ELSE LET eiv == CHOOSE x \in found : \A y \in found :
                        \/ x.start < y.start
                        \/ x.start = y.start /\ x.end <= y.end
             niv == IF \/ eiv.start < iv.start /\ eiv.end >= iv.end
                       \/ eiv.start <= iv.start /\ eiv.end > iv.end
                    THEN eiv ELSE iv
         IN  EnclosingFold(found \ {eiv}, niv)

\* ECodeVarIndex::enclosing; find_all yields the intervals overlapping iv
IndexEnclosing(index, var) ==
    LET iv == interval(var)
        found == { x \in index.index : x.start <= iv.end /\ iv.start <= x.end }
        piv == EnclosingFold(found, iv)
    IN  ECodeVar(index.space_id, piv.start, 8 * (1 + piv.end - piv.start),
                 var.generation)

\* ECodeVarIndex::registers over a register table of (offset, size) pairs
RegistersOf(table) ==
    [space_id |-> "register",
     index    |-> { [start |-> r[1], end |-> r[1] + r[2]] : r \in table }]

\* ECodeVarIndex::empty(space) followed by insert(v) for every v of vars
Inserted(space, inserted) ==
    [space_id |-> space, index |-> { interval(v) : v \in inserted }]

\* ECodeVarAliasNormalisePass::enclosing, variant: a register is looked up in
\* the register index the pass was created with
enclosing_WithRegisters(indexes, var) ==
    IF var.space \in DOMAIN indexes THEN IndexEnclosing(indexes[var.space], var)
    ELSE IF var.space = "register" THEN IndexEnclosing(registers, var)
    ELSE var

\* ECodeVarAliasNormalisePass::enclosing: only the per-pass indexes are
\* consulted
enclosing(indexes, var) ==
    IF var.space \in DOMAIN indexes THEN IndexEnclosing(indexes[var.space], var)
    ELSE var

\* resize_expr, variant: an extract is put around every expression
resize_expr_AlwaysExtract(svar, pvar, expr) == extract_low(expr, pvar.bits)

\* ECodeVarAliasNormalisePass::resize_expr
resize_expr(svar, pvar, expr) ==
    CASE svar.bits > pvar.bits ->
           IF svar.offset = pvar.offset THEN extract_low(expr, pvar.bits)
           ELSE LET loff == (pvar.offset - svar.offset) * 8
                IN  extract(expr, loff, loff + pvar.bits)
      [] svar.bits < pvar.bits ->
           IF svar.offset = pvar.offset
           THEN concat(extract_high(ExprVar(pvar), pvar.bits - svar.bits), expr)
           ELSE IF svar.offset + svar.bits \div 8 = pvar.bits \div 8
                THEN concat(expr, extract_low(ExprVar(pvar), pvar.bits - svar.bits))
                ELSE LET shift == (svar.offset - pvar.offset) * 8
                         hbits == extract_high(ExprVar(pvar),
                                               pvar.bits - svar.bits - shift)
                         lbits == extract_low(ExprVar(pvar), shift)
                     IN  concat(hbits, concat(expr, lbits))
      [] OTHER -> expr

\* the variables a read-only visit of an expression reaches
RECURSIVE ExprVars(_)
ExprVars(e) ==
    CASE e.kind = "Val" -> {}
      [] e.kind = "Var" -> {e.var}
      [] e.kind = "Extract" -> ExprVars(e.e)
      [] OTHER -> ExprVars(e.l) \cup ExprVars(e.r)

\* the index phase of apply: every variable of a non-register space is
\* inserted into the index of its space
IndexPhase(ops) ==
    LET seen == UNION { {ops[i].var} \cup ExprVars(ops[i].expr) : i \in 1..Len(ops) }
        kept == { v \in seen : v.space # "register" }
    IN  [sp \in { v.space : v \in kept } |->
            [space_id |-> sp,
             index    |-> { interval(v) : v \in { w \in kept : w.space = sp } }]]

\* VisitMut::visit_expr_mut
RECURSIVE visit_expr_mut(_, _)
visit_expr_mut(indexes, e) ==
    CASE e.kind = "Val" -> e
      [] e.kind = "Var" ->
           LET pvar == enclosing(indexes, e.var)
           IN  resize_expr(pvar, e.var, ExprVar(pvar))
      [] e.kind = "BinOp" ->
           ExprBinOp(visit_expr_mut(indexes, e.l), visit_expr_mut(indexes, e.r))
      [] e.kind = "Extract" -> extract(visit_expr_mut(indexes, e.e), e.lsb, e.msb)
      [] e.kind = "Concat" ->
           concat(visit_expr_mut(indexes, e.l), visit_expr_mut(indexes, e.r))

\* VisitMut::visit_stmt_assign_mut
visit_stmt_assign_mut(indexes, stmt) ==
    LET svar == stmt.var
        pvar == enclosing(indexes, svar)
        expr == visit_expr_mut(indexes, stmt.expr)
        rvar == ECodeVar(pvar.space, pvar.offset, pvar.bits, svar.generation)
    IN  Assign(rvar, resize_expr(svar, pvar, expr))

\* ECodeVarAliasNormalisePass::apply on the operations of a block
apply(ops) ==
    LET indexes == IndexPhase(ops)
    IN  [i \in 1..Len(ops) |-> visit_stmt_assign_mut(indexes, ops[i])]

\* the blocks given to the pass: assignments of a constant or of w + 1 to a
\* variable, all variables of a block in one space
VarBytes == {1, 2, 4}

AliasVars(space, generation) ==
    { ECodeVar(space, o, 8 * n, generation) : o \in 0..MaxVarOffset, n \in VarBytes }

AliasStmts(space) ==
    UNION { { Assign(v, ExprVal([i \in 1..(v.bits \div 8) |-> 160 + i])) }
              \cup { Assign(v, ExprBinOp(ExprVar(w),
                                ExprVal([i \in 1..(v.bits \div 8) |->
                                            IF i = 1 THEN 1 ELSE 0]))) :
                       w \in { x \in AliasVars(space, 0) :
                                 x.bits = v.bits /\ x.offset \in {0, 1, MaxVarOffset} } }
            : v \in AliasVars(space, 1) }

RECURSIVE SeqsUpTo(_, _)
SeqsUpTo(S, n) ==
    IF n = 0 THEN { <<>> }
    ELSE LET shorter == SeqsUpTo(S, n - 1)
         IN  shorter \cup { Append(q, x) : q \in shorter, x \in S }

\* the blocks of at most n statements over temporaries, and the blocks of
\* one statement over registers
AliasBlocks(n) ==
    (SeqsUpTo(AliasStmts("unique"), n) \ { <<>> })
        \cup { << st >> : st \in AliasStmts("register") }

AliasIdle ==
    alias = [pass |-> registers, ecode0 |-> <<>>, prev |-> <<>>, ecode |-> <<>>,
             applied |-> 0]

\* a block as the backend produced it, and a pass over the register index
AliasInit ==
    \E ops \in AliasBlocks(MaxStmts) :
        alias = [pass |-> registers, ecode0 |-> ops, prev |-> ops, ecode |-> ops,
                 applied |-> 0]

\* ECodeVarAliasNormalisePass::new(registers).apply(ecode); prev is the block
\* the pass was given
Apply ==
    /\ alias.applied < MaxPasses
    /\ alias' = [alias EXCEPT !.ecode = apply(alias.ecode),
                              !.prev = alias.ecode,
                              !.applied = alias.applied + 1]
    /\ UNCHANGED notAliasVars

AliasNext == Apply

\* the bit-widths of the variables of a block whose widths are not all whole
\* bytes (ECodeVar::new takes any number of bits)
WidthBits == {8, 12, 16}

WidthVars(space, generation) ==
    { ECodeVar(space, o, b, generation) : o \in 0..MaxVarOffset, b \in WidthBits }

WidthStmts(space) ==
    UNION { { Assign(v, ExprVal([i \in 1..((v.bits + 7) \div 8) |-> 160 + i])) }
              \cup { Assign(v, ExprBinOp(ExprVar(w),
                                ExprVal([i \in 1..((v.bits + 7) \div 8) |->
                                            IF i = 1 THEN 1 ELSE 0]))) :
                       w \in { x \in WidthVars(space, 0) :
                                 x.bits = v.bits /\ x.offset \in {0, 1, MaxVarOffset} } }
            : v \in WidthVars(space, 1) }

\* the blocks of at most n statements over temporaries of these widths, and
\* the blocks of one statement over registers
WidthBlocks(n) ==
    (SeqsUpTo(WidthStmts("unique"), n) \ { <<>> })
        \cup { << st >> : st \in WidthStmts("register") }

\* a block over variables of any width, and a pass over the register index
AliasWidthsInit ==
    \E ops \in WidthBlocks(MaxStmts) :
        alias = [pass |-> registers, ecode0 |-> ops, prev |-> ops, ecode |-> ops,
                 applied |-> 0]

\* no enclosing call made
EncIdle ==
    enc = [op |-> "none", table |-> {}, index |-> Inserted("unique", {}),
           var |-> ECodeVar("unique", 0, 8, 0),
           result |-> ECodeVar("unique", 0, 8, 0)]

\* index.enclosing(var); table is what the index was built from, as (offset,
\* size) pairs
Enclose(table, index, var) ==
    /\ enc.op = "none"
    /\ enc' = [op |-> "enclosing", table |-> table, index |-> index, var |-> var,
               result |-> IndexEnclosing(index, var)]
    /\ UNCHANGED notEncVars

\* enclosing on the register index of the backend, with and without EAX
EncloseRegister(table, var) == Enclose(table, RegistersOf(table), var)

\* enclosing on an index the variables vars were inserted into
EncloseInserted(inserted, var) ==
    Enclose({ <<v.offset, v.bits \div 8>> : v \in inserted },
            Inserted("unique", inserted), var)

EncNext ==
    \/ \E table \in { RegisterTable, RegisterTable \ { <<0, 4>> } } :
          \E var \in AliasVars("register", 1) : EncloseRegister(table, var)
    \/ \E inserted \in { x \in SUBSET AliasVars("unique", 0) :
                           Cardinality(x) <= MaxIndexed } :
          \E var \in AliasVars("unique", 1) : EncloseInserted(inserted, var)

----------------------------------------------------------------------------
(* Address construction and arithmetic (ir/memory/address.rs).  Here an     *)
(* Address carries the sign flag of the BitVec it wraps.                    *)

\* a BitVec with its sign flag
SBV(bits, val, signed) ==
    [bits |-> bits, val |-> val % Pow2(bits), signed |-> signed]

\* bv.cast(bits) keeps the sign and sign-extends a negative value;
\* bv.unsigned_cast(bits) zero-extends
cast(bv, bits) ==
    IF bv.signed /\ bits > bv.bits /\ bv.bits > 0 /\ bv.val >= Pow2(bv.bits - 1)
    THEN SBV(bits, bv.val + Pow2(bits) - Pow2(bv.bits), TRUE)
    ELSE SBV(bits, bv.val, bv.signed)

unsigned_cast(bv, bits) == SBV(bits, bv.val, FALSE)

\* Zero::zero() for Address
AddrZero == SBV(1, 0, FALSE)

Panicked == [tag |-> "panic", addr |-> AddrZero]
Returned(a) == [tag |-> "Ok", addr |-> a]

\* From<BitVec>, variant: the BitVec is wrapped as it is
AddressFrom_Unchecked(bv) == Returned(bv)

\* From<BitVec> for Address
AddressFrom(bv) ==
    IF bv.bits = 0 THEN Panicked ELSE Returned(SBV(bv.bits, bv.val, FALSE))

\* the constructors: From<u8..u128>, From<BitVec>, FromStr /
\* Num::from_str_radix (from the BitVec parsed), zero(), one()
AddrConstruct(kind, bv) ==
    CASE kind = "from_uint" -> Returned(bv)
      [] kind = "from_bv" -> AddressFrom(bv)
      [] kind = "from_str" ->
           IF bv.signed THEN [tag |-> "Sign", addr |-> AddrZero]
           ELSE IF bv.bits = 0 THEN [tag |-> "ZeroSize", addr |-> AddrZero]
           ELSE AddressFrom(bv)
      [] kind = "zero" -> AddressFrom(SBV(1, 0, FALSE))
      [] kind = "one" -> AddressFrom(SBV(1, 1, FALSE))

\* the BitVec operators on operands of one width; a zero divisor panics
BvArith(op, x, y) ==
    LET m == Pow2(x.bits)
    IN  CASE op = "add" -> Returned(SBV(x.bits, x.val + y.val, x.signed))
          [] op = "sub" -> Returned(SBV(x.bits, x.val - y.val + m, x.signed))
          [] op = "mul" -> Returned(SBV(x.bits, x.val * y.val, x.signed))
          [] op = "div" -> IF y.val = 0 THEN Panicked
                           ELSE Returned(SBV(x.bits, x.val \div y.val, x.signed))
          [] op = "rem" -> IF y.val = 0 THEN Panicked
                           ELSE Returned(SBV(x.bits, x.val % y.val, x.signed))

\* Address op Address, variant: the right operand is always cast to the
\* width of the left
AddrArith_LeftWidth(op, mode, a, b) ==
    LET r == BvArith(op, a, unsigned_cast(b, a.bits))
    IN  IF r.tag = "Ok" THEN AddressFrom(r.addr) ELSE r

\* impl Add/Div/Mul/Rem/Sub<Address> for Address; mode names the operand
\* combination: "vv" (Address, Address), "vr" (Address, &Address),
\* "rv" (&Address, Address), "rr" (&Address, &Address)
AddrArith(op, mode, a, b) ==
    LET r == IF a.bits = b.bits THEN BvArith(op, a, b)
             ELSE IF a.bits < b.bits
                  THEN BvArith(op, IF mode \in {"vv", "vr"} THEN cast(a, b.bits)
                                   ELSE unsigned_cast(a, b.bits), b)
                  ELSE BvArith(op, a, IF mode = "vv" THEN cast(b, a.bits)
                                      ELSE unsigned_cast(b, a.bits))
    IN  IF r.tag = "Ok" THEN AddressFrom(r.addr) ELSE r

\* impl Add/Div/Mul/Rem/Sub<usize> for Address ("vu") and for &Address
\* ("ru"): the usize becomes a BitVec of the address width; Mul<usize> for
\* Address calls rem
AddrArithUsize(op, mode, a, n) ==
    LET rhs_bv == SBV(a.bits, n, FALSE)
        r == BvArith(IF op = "mul" /\ mode = "vu" THEN "rem" ELSE op, a, rhs_bv)
    IN  IF r.tag = "Ok" THEN AddressFrom(r.addr) ELSE r

\* Address::as_bits and Address::into_bits
as_bits(a, bits) == AddressFrom(unsigned_cast(a, bits))
into_bits(a, bits) == AddressFrom(cast(a, bits))

\* Zero::set_zero and One::set_one for Address: both assign
\* Self::from(BitVec::one(self.bits()))
set_zero(a) == AddressFrom(SBV(a.bits, 1, FALSE))
set_one(a) == AddressFrom(SBV(a.bits, 1, FALSE))

\* Zero::is_zero and One::is_one for Address
is_zero(a) == a.val = 0
is_one(a) == a.val = 1

ArithOps == {"add", "sub", "mul", "div", "rem"}

\* the BitVecs a caller builds an Address from, of every width and sign:
\* the values 0, 1, the top bit alone and all ones
BitVecs ==
    { SBV(w, v, sg) : w \in 0..MaxAddrWidth,
                      v \in {0, 1, Pow2(MaxAddrWidth - 1), Pow2(MaxAddrWidth) - 1}
                              \cup { Pow2(x) - 1 : x \in 1..MaxAddrWidth },
                      sg \in BOOLEAN }

\* the right operands: the Addresses of every width
Addresses == { bv \in BitVecs : bv.bits > 0 /\ ~bv.signed }

AddrIdle ==
    aop = [op |-> "none", mode |-> "none", a |-> AddrZero, b |-> AddrZero,
           res |-> [tag |-> "none", addr |-> AddrZero]]

\* an Address is constructed
AddrNew(kind, bv) ==
    /\ kind = "from_uint" => (~bv.signed /\ bv.bits >= 2)
    /\ kind \in {"zero", "one"} => bv = AddrZero
    /\ aop' = [op |-> kind, mode |-> "none", a |-> bv, b |-> AddrZero,
               res |-> AddrConstruct(kind, bv)]
    /\ UNCHANGED notAddrVars

\* the last result op an Address
AddrBin(op, mode, b) ==
    /\ aop.res.tag = "Ok"
    /\ aop' = [op |-> op, mode |-> mode, a |-> aop.res.addr, b |-> b,
               res |-> AddrArith(op, mode, aop.res.addr, b)]
    /\ UNCHANGED notAddrVars

\* the last result op a usize
AddrUsize(op, mode, n) ==
    /\ aop.res.tag = "Ok"
    /\ aop' = [op |-> op, mode |-> mode, a |-> aop.res.addr,
               b |-> [bits |-> 0, val |-> n, signed |-> FALSE],
               res |-> AddrArithUsize(op, mode, aop.res.addr, n)]
    /\ UNCHANGED notAddrVars

\* as_bits / into_bits of the last result
AddrResize(kind, bits) ==
    /\ aop.res.tag = "Ok"
    /\ aop' = [op |-> kind, mode |-> "none", a |-> aop.res.addr,
               b |-> [bits |-> bits, val |-> 0, signed |-> FALSE],
               res |-> IF kind = "as_bits" THEN as_bits(aop.res.addr, bits)
                       ELSE into_bits(aop.res.addr, bits)]
    /\ UNCHANGED notAddrVars

\* set_zero / set_one on the last result
AddrSet(kind) ==
    /\ aop.res.tag = "Ok"
    /\ aop' = [op |-> kind, mode |-> "none", a |-> aop.res.addr, b |-> AddrZero,
               res |-> IF kind = "set_zero" THEN set_zero(aop.res.addr)
                       ELSE set_one(aop.res.addr)]
    /\ UNCHANGED notAddrVars

AddrNext ==
    \/ \E kind \in {"from_uint", "from_bv", "from_str", "zero", "one"},
          bv \in BitVecs : AddrNew(kind, bv)
    \/ \E op \in ArithOps, mode \in {"vv", "vr", "rv", "rr"}, b \in Addresses :
          AddrBin(op, mode, b)
    \/ \E op \in ArithOps, mode \in {"vu", "ru"},
          n \in {0, 1, 3, Pow2(MaxAddrWidth) - 1, Pow2(MaxAddrWidth) + 1} :
          AddrUsize(op, mode, n)
    \/ \E kind \in {"as_bits", "into_bits"}, bits \in 0..MaxAddrWidth :
          AddrResize(kind, bits)
    \/ \E kind \in {"set_zero", "set_one"} : AddrSet(kind)

----------------------------------------------------------------------------
(* Entity (types/entity/mod.rs) and Id (prelude/types/id/mod.rs)            *)

\* Id::from_parts(tag, uuid)
Id(tag, uuid) == [tag |-> tag, uuid |-> uuid]

\* the order of the tags as strings
TagRank(tag) == IF tag = "blk" THEN 1 ELSE 2

\* Ord for Id (derived): by tag, then by uuid
IdCmp(a, b) ==
    IF TagRank(a.tag) < TagRank(b.tag) THEN "Less"
    ELSE IF TagRank(a.tag) > TagRank(b.tag) THEN "Greater"
    ELSE IF a.uuid < b.uuid THEN "Less"
    ELSE IF a.uuid > b.uuid THEN "Greater"
    ELSE "Equal"

\* PartialEq for Id (derived): tag and uuid are compared, the marker is not
IdEq(a, b) == a.tag = b.tag /\ a.uuid = b.uuid

\* Hash for Id (derived): what is fed to the hasher
IdHash(a) == <<a.tag, a.uuid>>

\* Id::transmute and Id::erase: tag and uuid are kept, the marker changes
transmute(id) == Id(id.tag, id.uuid)
erase(id) == transmute(id)

\* PartialEq for Entity, variant: as #[derive(PartialEq)] would compare
EntityEq_Derived(a, b) == a.id = b.id /\ a.value = b.value

\* PartialEq for Entity
EntityEq(a, b) == a.id = b.id

\* Ord / PartialOrd for Entity
EntityCmp(a, b) == IdCmp(a.id, b.id)

\* Hash for Entity: what is fed to the hasher
EntityHash(a) == <<a.id.tag, a.id.uuid>>

\* how the two Entities compare, in both directions and with themselves
Compared(x, y) ==
    [eq   |-> <<EntityEq(x, y), EntityEq(y, x), EntityEq(x, x), EntityEq(y, y)>>,
     cmp  |-> <<EntityCmp(x, y), EntityCmp(y, x), EntityCmp(x, x), EntityCmp(y, y)>>,
     hash |-> <<EntityHash(x), EntityHash(y)>>]

\* the ids and values Entities are made of
EntIds == { Id(t, u) : t \in {"blk", "def"}, u \in 1..MaxUuid }
EntValues == 0..MaxValue

\* an Entity and its clone
EntIdle ==
    LET e == Entity(Id("blk", 1), 0)
    IN  ent = [x |-> e, y |-> e, op |-> "none", was |-> Compared(e, e)]

\* Entity::from_parts(id, value) (Entity::new mints the id) replaces one of
\* the two
FromParts(which, id, value) ==
    /\ ent' = [ent EXCEPT ![which] = Entity(id, value), !.op = "from_parts",
                          !.was = Compared(ent.x, ent.y)]
    /\ UNCHANGED notEntVars

\* *entity.deref_mut() = value
DerefMut(which, value) ==
    /\ ent' = [ent EXCEPT ![which].value = value, !.op = "deref_mut",
                          !.was = Compared(ent.x, ent.y)]
    /\ UNCHANGED notEntVars

\* *entity.value_mut() = value
ValueMut(which, value) ==
    /\ ent' = [ent EXCEPT ![which].value = value, !.op = "value_mut",
                          !.was = Compared(ent.x, ent.y)]
    /\ UNCHANGED notEntVars

EntNext ==
    \/ \E w \in {"x", "y"}, id \in EntIds, v \in EntValues : FromParts(w, id, v)
    \/ \E w \in {"x", "y"}, v \in EntValues : DerefMut(w, v)
    \/ \E w \in {"x", "y"}, v \in EntValues : ValueMut(w, v)

----------------------------------------------------------------------------
(* Var::fresh and the UNIQUE_VAR counter (ir/variable/mod.rs)               *)

Threads == 1..MaxThreads

HexDigit(d) ==
    <<"0", "1", "2", "3", "4", "5", "6", "7",
      "8", "9", "a", "b", "c", "d", "e", "f">>[d + 1]

\* format!("{:x}", n)
RECURSIVE LowerHex(_)
LowerHex(n) ==
    IF n < 16 THEN << HexDigit(n) >>
    ELSE Append(LowerHex(n \div 16), HexDigit(n % 16))

\* format!("v{:x}", n)
FreshName(n) == <<"v">> \o LowerHex(n)

\* fetch_add, variant: the counter is read and not advanced
FetchAdd_NoStore(counter, n) == counter

\* AtomicU64::fetch_add: the value stored, wrapping at the counter width
FetchAdd(counter, n) == (counter + n) % Pow2(CounterBits)

\* UNIQUE_VAR = 0 and no call made; a thread is "idle" or holds the value it
\* fetched ("format")
FreshIdle ==
    fresh = [counter |-> 0, calls |-> 0,
             pc      |-> [t \in Threads |-> "idle"],
             held    |-> [t \in Threads |-> 0],
             values  |-> [t \in Threads |-> <<>>],
             names   |-> [t \in Threads |-> <<>>]]

\* Var::fresh, first step: UNIQUE_VAR.fetch_add(1, Ordering::Relaxed), one
\* atomic read-modify-write
FetchCounter(t) ==
    /\ fresh.pc[t] = "idle"
    /\ fresh.calls < MaxCalls
    /\ fresh' = [fresh EXCEPT !.counter = FetchAdd(fresh.counter, 1),
                              !.calls = fresh.calls + 1,
                              !.held[t] = fresh.counter,
                              !.pc[t] = "format"]
    /\ UNCHANGED notFreshVars

\* Var::fresh, second step: the name is formatted and the Var returned
ReturnVar(t) ==
    /\ fresh.pc[t] = "format"
    /\ fresh' = [fresh EXCEPT !.values[t] = Append(@, fresh.held[t]),
                              !.names[t] = Append(@, FreshName(fresh.held[t])),
                              !.pc[t] = "idle"]
    /\ UNCHANGED notFreshVars

FreshNext ==
    \/ \E t \in Threads : FetchCounter(t)
    \/ \E t \in Threads : ReturnVar(t)

----------------------------------------------------------------------------
(* Specifications: one per component, the others idle                       *)

RegionSpecInit ==
    RegionInit /\ BlkIdle /\ ProjectInit /\ LiftIdle /\ AliasIdle /\ AddrIdle /\ EntIdle
        /\ FreshIdle /\ EncIdle

SpecRegion == RegionSpecInit /\ [][RegionNext]_vars

BlkSpecInit ==
    BlkInit /\ RegionIdle /\ ProjectInit /\ LiftIdle /\ AliasIdle /\ AddrIdle /\ EntIdle
        /\ FreshIdle /\ EncIdle

SpecBlk == BlkSpecInit /\ [][BlkNext]_vars

LiftSpecInit ==
    LiftIdle /\ ProjectInit /\ RegionIdle /\ BlkIdle /\ AliasIdle /\ AddrIdle /\ EntIdle
        /\ FreshIdle /\ EncIdle

\* regions are constructed
SpecRegionNew == LiftSpecInit /\ [][RegionNewNext]_vars

\* direct calls of lift_blk_with
SpecLift == LiftSpecInit /\ [][LiftNext]_vars

\* single instructions are classified
SpecClassify == LiftSpecInit /\ [][ClassifyNext]_vars

\* a project whose lifter returns Blks
SpecIndex == LiftSpecInit /\ [][IndexNext]_vars

\* a project: regions are mapped and blocks added
SpecProject == LiftSpecInit /\ [][ProjectNext]_vars

AliasSpecInit ==
    AliasInit /\ RegionIdle /\ BlkIdle /\ ProjectInit /\ LiftIdle /\ AddrIdle /\ EntIdle
        /\ FreshIdle /\ EncIdle

\* the alias pass applied to a block
SpecAlias == AliasSpecInit /\ [][AliasNext]_vars

AliasWidthsSpecInit ==
    AliasWidthsInit /\ RegionIdle /\ BlkIdle /\ ProjectInit /\ LiftIdle /\ AddrIdle
        /\ EntIdle /\ FreshIdle /\ EncIdle

\* the alias pass applied to a block over variables of any width
SpecAliasWidths == AliasWidthsSpecInit /\ [][AliasNext]_vars

AddrSpecInit ==
    AddrIdle /\ AliasIdle /\ RegionIdle /\ BlkIdle /\ ProjectInit /\ LiftIdle /\ EntIdle
        /\ FreshIdle /\ EncIdle

EntSpecInit ==
    EntIdle /\ AddrIdle /\ AliasIdle /\ RegionIdle /\ BlkIdle /\ ProjectInit /\ LiftIdle
        /\ FreshIdle /\ EncIdle

\* Entities are made and their values mutated
SpecEntity == EntSpecInit /\ [][EntNext]_vars

FreshSpecInit ==
    FreshIdle /\ EntIdle /\ AddrIdle /\ AliasIdle /\ RegionIdle /\ BlkIdle
        /\ ProjectInit /\ LiftIdle /\ EncIdle

\* threads call Var::fresh
SpecFresh == FreshSpecInit /\ [][FreshNext]_vars

EncSpecInit ==
    EncIdle /\ FreshIdle /\ EntIdle /\ AddrIdle /\ AliasIdle /\ RegionIdle
        /\ BlkIdle /\ ProjectInit /\ LiftIdle

\* enclosing is called on an index
SpecEnclosing == EncSpecInit /\ [][EncNext]_vars

\* Addresses are constructed and combined
SpecAddr == AddrSpecInit /\ [][AddrNext]_vars

----------------------------------------------------------------------------
(* Properties of the region operations                                      *)

\* the `count` bytes at `address` lie inside the region (no wrap-around:
\* plain integers)
InBounds(r, address, count) ==
    /\ address.val >= r.range.start.val
    /\ address.val + count <= r.range.start.val + Len(r.bytes)

\* the value of the covering bytes in the region's byte order
CoverValue(r, bytes, off, count) ==
    IF r.endian = "LE" THEN FromLeBytes(SubSeq(bytes, off + 1, off + count))
    ELSE FromBeBytes(SubSeq(bytes, off + 1, off + count))

\* C5: write_bits(a, v) followed by read_bits(a, width(v)) returns v, for
\* every in-bounds (a, v), both byte orders, aligned and unaligned widths;
\* an in-bounds write_bits succeeds.
C5_WriteReadRoundTrip ==
    /\ (rio.op = "write_bits"
            /\ InBounds(region, rio.address, ByteCount(rio.bv.bits)))
         => rio.result.tag = "Ok"
    /\ rio.op = "read_back" => rio.result = [tag |-> "Ok", bv |-> rio.bv]

C5_Witness ==
    /\ rio.op = "read_back"
    /\ region.endian = "BE"
    /\ rio.bv.bits > 8 /\ rio.bv.bits % 8 # 0
    /\ rio.bv.val \notin {0, Pow2(rio.bv.bits) - 1}
    /\ rio.result = [tag |-> "Ok", bv |-> rio.bv]

\* C6: a write_bits of a width that is not a multiple of 8 changes only the
\* addressed bit window of the covering bytes (low bits of the little-endian
\* value, high bits of the big-endian value), which then holds the written
\* value; every other bit and byte of the region is unchanged.  Big-endian
\* FF FF after write_bits(start, 0b1010:4) is AF FF.
C6_PartialWriteFrame ==
    (rio.op = "write_bits" /\ rio.result.tag = "Ok" /\ rio.bv.bits % 8 # 0) =>
        LET bits  == rio.bv.bits
            count == ByteCount(bits)
            off   == rio.address.val - region.range.start.val
            rest  == 8 * count - bits
            old   == CoverValue(region, rio.before, off, count)
            new   == CoverValue(region, region.bytes, off, count)
        IN  /\ Len(region.bytes) = Len(rio.before)
            /\ \A i \in 1..Len(region.bytes) :
                  (i <= off \/ i > off + count) => region.bytes[i] = rio.before[i]
            /\ region.endian = "LE" =>
                  /\ new % Pow2(bits) = rio.bv.val
                  /\ new \div Pow2(bits) = old \div Pow2(bits)
            /\ region.endian = "BE" =>
                  /\ new \div Pow2(rest) = rio.bv.val
                  /\ new % Pow2(rest) = old % Pow2(rest)
            /\ (region.endian = "BE" /\ rio.before = <<255, 255>>
                    /\ off = 0 /\ rio.bv = BV(4, 10))
                 => region.bytes = <<175, 255>>

C6_Witness ==
    /\ rio.op = "write_bits" /\ rio.result.tag = "Ok"
    /\ region.endian = "BE" /\ rio.before = <<255, 255>>
    /\ rio.address = region.range.start /\ rio.bv = BV(4, 10)
    /\ region.bytes = <<175, 255>>

\* C7: view_bytes(addr, count) returns bytes[off..off+count], off = addr -
\* start, when count > 0 and [addr, addr+count) lies within the region; in
\* every other case it returns OOBRead (view_bytes_mut: OOBWrite).
C7_ViewBytesOrOOB ==
    rio.op \in {"view_bytes", "view_bytes_mut"} =>
        IF rio.count > 0 /\ InBounds(region, rio.address, rio.count)
        THEN LET off == rio.address.val - region.range.start.val
             IN  rio.result = [tag |-> "Ok", off |-> off,
                               bytes |-> SubSeq(region.bytes, off + 1, off + rio.count)]
        ELSE rio.result.tag =
                (IF rio.op = "view_bytes" THEN "OOBRead" ELSE "OOBWrite")

\* the value of bytes off+1..off+count of the region: byte i weighs
\* 256^(i-1) little-endian and 256^(count-i) big-endian
RECURSIVE WeighedBytes(_, _, _, _)
WeighedBytes(r, off, count, i) ==
    IF i > count THEN 0
    ELSE r.bytes[off + i]
            * Pow2(8 * (IF r.endian = "LE" THEN i - 1 ELSE count - i))
         + WeighedBytes(r, off, count, i + 1)

\* C17: read_bits(addr, bits) on an in-bounds range returns a bit-vector of
\* width exactly `bits` whose value is the ceil(bits/8) bytes at addr in the
\* region's byte order (little-endian: first byte least significant;
\* big-endian: first byte most significant), keeping the low `bits` bits for
\* little-endian and the high `bits` bits for big-endian when bits is not a
\* multiple of 8.
C17_ReadBitsValue ==
    (rio.op = "read_bits" /\ rio.bits > 0
        /\ InBounds(region, rio.address, ByteCount(rio.bits))) =>
        LET count == ByteCount(rio.bits)
            off   == rio.address.val - region.range.start.val
            value == WeighedBytes(region, off, count, 1)
            rest  == 8 * count - rio.bits
        IN  /\ rio.result.tag = "Ok"
            /\ rio.result.bv.bits = rio.bits
            /\ rio.result.bv.val =
                  (IF region.endian = "LE" THEN value % Pow2(rio.bits)
                   ELSE value \div Pow2(rest))

\* the two bytes 5a c3, little-endian, were read as 16 bits: 0xc35a
C17_Witness ==
    /\ rio.op = "read_bits" /\ rio.bits = 16
    /\ region.endian = "LE"
    /\ rio.address = region.range.start
    /\ Len(region.bytes) >= 2
    /\ region.bytes[1] = 90 /\ region.bytes[2] = 195
    /\ rio.result.tag = "Ok"
    /\ rio.result.bv = BV(16, 50010)

----------------------------------------------------------------------------
(* Properties of the block splits                                           *)

SplitOps == {"split_top", "split_bottom", "split_before", "split_after"}

\* the 0-based index of the first def of `defs` with id `id` (it has one)
FirstIndex(defs, id) ==
    CHOOSE i \in 0..(Len(defs) - 1) :
        /\ defs[i + 1].id = id
        /\ \A j \in 1..i : defs[j].id # id

HasDef(defs, id) == \E i \in 1..Len(defs) : defs[i].id = id

\* the split position the claim names for the call recorded in bop
ClaimedPos ==
    CASE bop.op = "split_top" -> 0
      [] bop.op = "split_bottom" -> Len(bop.defs)
      [] bop.op = "split_before" -> FirstIndex(bop.defs, bop.arg)
      [] bop.op = "split_after" -> FirstIndex(bop.defs, bop.arg) + 1

\* C2: for a Blk with defs D and jmps J and the split position pos (0 for
\* split_top, len(D) for split_bottom, the index of the first def with the
\* given id for split_before, that index + 1 for split_after), the split
\* returns a child with defs D[pos..] and jmps J and leaves the parent with
\* defs D[..pos] and exactly one jmp, an unconditional Branch to the child.
C2_SplitSlices ==
    (bop.op \in SplitOps
        /\ (bop.op \in {"split_before", "split_after"} => HasDef(bop.defs, bop.arg)))
    => LET pos == ClaimedPos
       IN  /\ bop.child.value.defs = SubSeq(bop.defs, pos + 1, Len(bop.defs))
           /\ bop.child.value.jmps = bop.jmps
           /\ blk.value.defs = SubSeq(bop.defs, 1, pos)
           /\ Len(blk.value.jmps) = 1
           /\ blk.value.jmps[1].value = JmpBranch(bop.child.id)
           /\ bop.child = children[Len(children)]

\* split_after(d1) of defs [d1, d2, d1] and a jmp: the child holds [d2, d1]
C2_Witness ==
    /\ bop.op = "split_after"
    /\ Len(bop.defs) = 3 /\ bop.defs[1].id = bop.arg /\ bop.defs[3].id = bop.arg
    /\ bop.defs[2].id # bop.arg
    /\ Len(bop.jmps) = 1 /\ bop.jmps[1].value.kind = "Return"
    /\ Len(bop.child.value.defs) = 2
    /\ bop.child.value.jmps = bop.jmps
    /\ Len(blk.value.defs) = 1

\* C23: when the def passed to split_before or split_after is not among the
\* block's defs, no def is moved: the parent keeps all its defs in their
\* order, the returned child has no defs, and the parent's jmps are still
\* transferred to the child, the parent ending with a single unconditional
\* Branch to the child's id.
C23_SplitMissingDef ==
    (bop.op \in {"split_before", "split_after"} /\ ~HasDef(bop.defs, bop.arg))
    => /\ blk.value.defs = bop.defs
       /\ bop.child.value.defs = <<>>
       /\ bop.child.value.jmps = bop.jmps
       /\ Len(blk.value.jmps) = 1
       /\ blk.value.jmps[1].value = JmpBranch(bop.child.id)

\* split_before of a def the block does not hold, the block holding two defs
\* and a jmp
C23_Witness ==
    /\ bop.op = "split_before" /\ ~HasDef(bop.defs, bop.arg)
    /\ Len(bop.defs) = 2 /\ Len(bop.jmps) = 1
    /\ blk.value.defs = bop.defs
    /\ bop.child.value.defs = <<>>
    /\ bop.child.value.jmps = bop.jmps

\* the children reached from block b by following a single Branch to the id
\* of a child, at most n of them
RECURSIVE Followed(_, _)
Followed(b, n) ==
    IF /\ n > 0
       /\ Len(b.jmps) = 1
       /\ b.jmps[1].value.kind = "Branch"
       /\ b.jmps[1].value.loc.kind = "Resolved"
       /\ \E i \in 1..Len(children) : children[i].id = b.jmps[1].value.loc.id
    THEN LET c == children[CHOOSE i \in 1..Len(children) :
                              children[i].id = b.jmps[1].value.loc.id]
         IN  <<c>> \o Followed(c.value, n - 1)
    ELSE <<>>

RECURSIVE DefsOf(_)
DefsOf(bs) == IF bs = <<>> THEN <<>> ELSE Head(bs).value.defs \o DefsOf(Tail(bs))

\* C30: after any sequence of split_top, split_bottom, split_before and
\* split_after calls on a parent block built with defs D, jmps J and phis P,
\* following the single Branch jmp from the parent through the children
\* visits every child exactly once, the defs of the parent and then of the
\* visited children concatenate to D, the last child visited holds exactly
\* J, the parent still holds P and its anchor address, and every child has
\* no phis and no anchor address.
C30_SplitChain ==
    children # <<>> =>
        LET visited == Followed(blk.value, Len(children) + 1)
        IN  /\ Len(visited) = Len(children)
            /\ \A i \in 1..Len(children) :
                  Cardinality({ k \in 1..Len(visited) : visited[k] = children[i] }) = 1
            /\ blk.value.defs \o DefsOf(visited) = bop.built.defs
            /\ visited[Len(visited)].value.jmps = bop.built.jmps
            /\ blk.value.phis = bop.built.phis
            /\ blk.value.addr = bop.built.addr /\ blk.value.addr # None
            /\ \A i \in 1..Len(children) :
                  children[i].value.phis = <<>> /\ children[i].value.addr = None

\* a parent built with three defs, a jmp and a phi, split twice: the chain
\* is parent, second child, first child, and each of the three holds a def
C30_Witness ==
    /\ Len(children) = 2
    /\ Len(bop.built.defs) = 3 /\ Len(bop.built.jmps) = 1 /\ Len(bop.built.phis) = 1
    /\ Len(blk.value.defs) = 1
    /\ Len(children[1].value.defs) = 1 /\ Len(children[2].value.defs) = 1
    /\ blk.value.jmps[1].value = JmpBranch(children[2].id)
    /\ children[2].value.jmps[1].value = JmpBranch(children[1].id)
    /\ children[1].value.jmps = bop.built.jmps

----------------------------------------------------------------------------
(* Properties of the lifter and of add_blk                                  *)

\* a direct lift_blk_with call has returned
LiftReturned ==
    pc = "idle" /\ call.caller = "lift_blk_with" /\ ret.tag # "none"

\* the micro-op sequence ends in a last-position Return
EndsInLastReturn(ecode) ==
    /\ ecode.operations # <<>>
    /\ ecode.operations[Len(ecode.operations)].kind = "Return"

\* C1: lift_blk_with on a view whose first instruction lifts to a sequence
\* ending in a last-position Return returns exactly one Blk whose
\* terminating jmp is a Return, and the backend is asked to lift exactly one
\* instruction.
C1_RetYieldsOneBlk ==
    (LiftReturned /\ Len(lifts) >= 1 /\ lifts[1].ok
        /\ EndsInLastReturn(lifts[1].ecode))
    => /\ ret.tag = "Ok"
       /\ Len(lifts) = 1
       /\ Len(ret.blks) = 1
       /\ LET jmps == ret.blks[1].value.jmps
          IN  jmps # <<>> /\ jmps[Len(jmps)].value.kind = "Return"

\* C9: when the backend fails on the k-th instruction after k-1 instructions
\* were lifted without ending the block, the call returns Ok with the Blks
\* built from those k-1 instructions: a non-empty list when k > 1.
C9_PartialBlksOnFailure ==
    (LiftReturned /\ Len(lifts) >= 1 /\ ~lifts[Len(lifts)].ok)
    => /\ ret.tag = "Ok"
       /\ Len(stmts) = Len(lifts) - 1
       /\ Len(lifts) > 1 => ret.blks # <<>>

LiftedOk == { c \in 1..Len(lifts) : lifts[c].ok }

\* C25: in lift_blk_with, every successfully lifted instruction, including
\* the instruction whose classified targets end the block, is recorded in the
\* accumulated (statements, targets) list and advances the offset by its
\* decoded length before the loop stops; the loop never discards an
\* instruction it has lifted.
C25_EveryLiftRecorded ==
    call.caller = "lift_blk_with" =>
        /\ Len(stmts) = Cardinality(LiftedOk)
        /\ \A c \in LiftedOk :
              /\ c <= Len(stmts)
              /\ stmts[c] = <<lifts[c].ecode, branch_targets(lifts[c].ecode)>>
              /\ c = Cardinality(LiftedOk)
                    => offset = lifts[c].offset + lifts[c].ecode.length

\* an edge that ends the block, as the claim lists them
EndingEdge(t) ==
    t.kind \in {"Unresolved", "InterBlk"} \/ (t.kind = "InterRet" /\ t.last = TRUE)

\* an edge that does not, as the claim lists them
PassingEdge(t) ==
    \/ t.kind \in {"IntraIns", "IntraBlk", "InterSub", "Intrinsic"}
    \/ t.kind = "InterRet" /\ t.last = FALSE

C8_AddBlkDegrades ==
    [][ (/\ call'.caller = "add_blk"
         /\ liftVars' # liftVars
         /\ \/ find_region(memory, call'.addr) = {}
            \/ LiftedBlks(stmts') = <<>>)
        => /\ projectVars' = projectVars
           /\ pc' = "idle" => (ret'.tag = "Ok" /\ ret'.ids = <<>>) ]_vars

\* add_blk in a mapped region: two instructions were lifted and recorded,
\* and the call came back with no ids and an empty index
C8_Witness ==
    /\ pc = "idle" /\ call.caller = "add_blk" /\ ret.tag = "Ok"
    /\ find_region(memory, call.addr) # {}
    /\ Len(stmts) = 2
    /\ ret.ids = <<>>
    /\ blks = EmptyMap /\ blks_to_addr = EmptyMap /\ addr_to_blks = EmptyMap

\* C16: Region::new / new_with either aborts (empty byte buffer, or start + len
\* not representable at the address width) or returns a Region with
\* len(bytes) > 0 whose interval is exactly [start, start + len(bytes)): its
\* end minus its start is len(bytes), with no wrap-around at the address
\* width.
C16_RegionInterval ==
    rio.op = "new" =>
        LET start == rio.address.val
            top == Pow2(rio.address.bits)
        IN  IF rio.result = "panic"
            THEN rio.count = 0 \/ start + rio.count >= top
            ELSE /\ Len(region.bytes) = rio.count /\ rio.count > 0
                 /\ region.range.start = rio.address
                 /\ region.range.end.val = start + rio.count - 1
                 /\ start + rio.count < top

----------------------------------------------------------------------------
(* Properties of the alias pass                                             *)

\* the sum of two little-endian byte strings of one length, modulo the width
RECURSIVE AddBytes(_, _, _)
AddBytes(a, b, carry) ==
    IF a = <<>> THEN <<>>
    ELSE LET t == Head(a) + Head(b) + carry
         IN  <<t % 256>> \o AddBytes(Tail(a), Tail(b), t \div 256)

\* the value of an expression in a byte-state: its bytes, least significant
\* first
RECURSIVE Eval(_, _)
Eval(e, st) ==
    CASE e.kind = "Val" -> e.bytes
      [] e.kind = "Var" ->
           SubSeq(st[e.var.space], e.var.offset + 1,
                  e.var.offset + e.var.bits \div 8)
      [] e.kind = "BinOp" -> AddBytes(Eval(e.l, st), Eval(e.r, st), 0)
      [] e.kind = "Extract" -> SubSeq(Eval(e.e, st), e.lsb \div 8 + 1, e.msb \div 8)
      [] e.kind = "Concat" -> Eval(e.r, st) \o Eval(e.l, st)

\* an assignment stores the value into the bytes the target denotes
Exec(stmt, st) ==
    LET v == Eval(stmt.expr, st)
        o == stmt.var.offset
    IN  [st EXCEPT ![stmt.var.space] =
            [i \in 1..Len(@) |->
                IF o < i /\ i <= o + stmt.var.bits \div 8 /\ i - o <= Len(v)
                THEN v[i - o] ELSE @[i]]]

RECURSIVE Run(_, _)
Run(ops, st) == IF ops = <<>> THEN st ELSE Run(Tail(ops), Exec(Head(ops), st))

\* initial byte-states of the variable storage
ByteStates ==
    { [sp \in {"register", "unique"} |-> [i \in 1..(MaxVarOffset + 4) |-> 17 * i]],
      [sp \in {"register", "unique"} |-> [i \in 1..(MaxVarOffset + 4) |-> 256 - i]] }

IsEAX(e) ==
    /\ e.kind = "Var" /\ e.var.space = "register"
    /\ e.var.offset = 0 /\ e.var.bits = 32

\* AL <- AL + 1, with generation g for the target
StmtIncAL(g) ==
    Assign(ECodeVar("register", 0, 8, g),
           ExprBinOp(ExprVar(ECodeVar("register", 0, 8, 0)), ExprVal(<<1>>)))

\* C3: the pass, built over a register index in which EAX covers AL, turns
\* AL <- AL + 1 into EAX(g) <- concat(extract_high(EAX, 24),
\* extract_low(EAX, 8) + 1), g the generation of the AL assignment target.
C3_AliasRewriteAL ==
    (alias.applied = 1 /\ alias.ecode0 = <<StmtIncAL(1)>>)
    => /\ Len(alias.ecode) = 1
       /\ LET out == alias.ecode[1]
          IN  /\ out.var = ECodeVar("register", 0, 32, 1)
              /\ out.expr.kind = "Concat"
              /\ out.expr.l.kind = "Extract" /\ IsEAX(out.expr.l.e)
              /\ out.expr.l.lsb = 8 /\ out.expr.l.msb = 32
              /\ out.expr.r.kind = "BinOp"
              /\ out.expr.r.l.kind = "Extract" /\ IsEAX(out.expr.r.l.e)
              /\ out.expr.r.l.lsb = 0 /\ out.expr.r.l.msb = 8
              /\ out.expr.r.r = ExprVal(<<1>>)

\* C4: for every block of assignments over aliased variables and every
\* initial byte-state, executing the block before the pass and executing the
\* rewritten block produce the same final byte-state.
C4_AliasPreservesBytes ==
    alias.applied >= 1 =>
        \A st \in ByteStates : Run(alias.ecode, st) = Run(alias.ecode0, st)

\* C19: applying the alias-normalisation pass a second time to a micro-op
\* sequence the pass has already normalised leaves every statement
\* structurally unchanged: the same target variables (space, offset, width,
\* generation) and the same expressions.
C19_SecondPassNoOp ==
    alias.applied >= 2 =>
        /\ Len(alias.ecode) = Len(alias.prev)
        /\ \A i \in 1..Len(alias.ecode) :
              /\ alias.ecode[i].var = alias.prev[i].var
              /\ alias.ecode[i].expr = alias.prev[i].expr

\* a block the first pass rewrote was given to the pass again
C19_Witness ==
    /\ alias.applied = 2
    /\ alias.prev # alias.ecode0
    /\ alias.ecode = alias.prev

\* the interval of var is properly contained in another interval that the
\* index phase recorded for var's space
ProperlyContained(indexes, var) ==
    /\ var.space \in DOMAIN indexes
    /\ \E x \in indexes[var.space].index :
          /\ x # interval(var)
          /\ x.start <= interval(var).start
          /\ interval(var).end <= x.end

RECURSIVE SubExprs(_)
SubExprs(e) ==
    {e} \cup CASE e.kind \in {"Val", "Var"} -> {}
               [] e.kind = "Extract" -> SubExprs(e.e)
               [] OTHER -> SubExprs(e.l) \cup SubExprs(e.r)

\* statement i of the block given keeps every reference to a variable in
\* kept: a kept target stays the same variable and its right-hand side is
\* the rewritten right-hand side, a kept read stays the operand it was
RefsKept(kept, i) ==
    LET indexes == IndexPhase(alias.ecode0)
        old == alias.ecode0[i]
        new == alias.ecode[i]
    IN  /\ (old.var \in kept /\ ~ProperlyContained(indexes, old.var))
              => /\ new.var = old.var
                 /\ new.expr = visit_expr_mut(indexes, old.expr)
        /\ (/\ old.expr.kind = "BinOp"
            /\ old.expr.l.var \in kept
            /\ ~ProperlyContained(indexes, old.expr.l.var))
              => /\ \E b \in SubExprs(new.expr) : b.kind = "BinOp"
                 /\ \A b \in SubExprs(new.expr) :
                       b.kind = "BinOp" => b.l = old.expr.l

AllRefs ==
    UNION { {alias.ecode0[i].var} \cup ExprVars(alias.ecode0[i].expr) :
              i \in 1..Len(alias.ecode0) }

----------------------------------------------------------------------------
(* Properties of Entity                                                     *)

\* C20: two Entities compare equal if and only if their ids compare equal:
\* mutating an Entity's value through deref_mut or value_mut never changes
\* the result of comparing, ordering or hashing it against any Entity, and
\* two Entities holding equal values under different ids are unequal.
C20_EqualById ==
    /\ EntityEq(ent.x, ent.y) <=> ent.x.id = ent.y.id
    /\ EntityCmp(ent.x, ent.y) = "Equal" <=> ent.x.id = ent.y.id
    /\ ent.op \in {"deref_mut", "value_mut"} => Compared(ent.x, ent.y) = ent.was
    /\ (ent.x.value = ent.y.value /\ ent.x.id # ent.y.id)
          => ~EntityEq(ent.x, ent.y)

\* an Entity and a clone of it whose value was then changed through value_mut
C20_Witness ==
    /\ ent.op = "value_mut"
    /\ ent.x.id = ent.y.id /\ ent.x.value # ent.y.value
    /\ ent.was.eq[1] /\ EntityEq(ent.x, ent.y)

\* a < b, a = b or a > b
IntCmp(a, b) == IF a < b THEN "Less" ELSE IF a > b THEN "Greater" ELSE "Equal"

\* C21: two Ids are equal if and only if their uuids are equal, and Ids are
\* ordered by uuid alone: the tag takes no part in equality, ordering or
\* hashing, so two Ids built with from_parts from one uuid and different tags
\* compare equal, and erase/transmute never change how an Id compares.
C21_IdByUuid ==
    LET a == ent.x.id
        b == ent.y.id
    IN  /\ IdEq(a, b) <=> a.uuid = b.uuid
        /\ IdCmp(a, b) = IntCmp(a.uuid, b.uuid)
        /\ a.uuid = b.uuid => IdHash(a) = IdHash(b)
        /\ IdEq(transmute(a), b) = IdEq(a, b)
        /\ IdEq(erase(a), erase(b)) = IdEq(a, b)
        /\ IdCmp(transmute(a), b) = IdCmp(a, b)

----------------------------------------------------------------------------
(* Properties of Var::fresh                                                 *)

\* C22: under any interleaving of concurrent Var::fresh calls from any number
\* of threads (fewer calls in total than the counter has values), no two
\* calls return variables with the same name, and the names minted by one
\* thread follow strictly increasing counter values.
C22_FreshUnique ==
    fresh.calls < Pow2(CounterBits) =>
        /\ \A t, u \in Threads :
              \A i \in 1..Len(fresh.names[t]), j \in 1..Len(fresh.names[u]) :
                  (t # u \/ i # j) => fresh.names[t][i] # fresh.names[u][j]
        /\ \A t \in Threads :
              \A i \in 1..Len(fresh.values[t]) :
                  /\ fresh.names[t][i] = FreshName(fresh.values[t][i])
                  /\ i > 1 => fresh.values[t][i - 1] < fresh.values[t][i]

\* two threads fetched the counter before either returned, and both names
\* were minted
C22_Witness ==
    /\ fresh.calls = 3
    /\ Len(fresh.names[1]) = 2 /\ Len(fresh.names[2]) = 1
    /\ fresh.values[1] = <<0, 2>> /\ fresh.values[2] = <<1>>

\* the (offset, size) pairs of `table` whose bytes contain the bytes of var,
\* and var's own
Containing(table, var) ==
    { r \in table \cup { <<var.offset, var.bits \div 8>> } :
        /\ r[1] <= var.offset
        /\ r[1] + r[2] >= var.offset + var.bits \div 8 }

\* C27: ECodeVarIndex::enclosing(v) returns the variable of the widest
\* indexed interval that contains v's byte interval, with offset and
\* bit-width equal to that interval's start and size and with v's generation:
\* for AL within AX within EAX it returns EAX when EAX is in the index and AX
\* when EAX is not, and it returns v itself when no indexed interval properly
\* contains v.
C27_EnclosingWidest ==
    enc.op = "enclosing" =>
        /\ \E r \in Containing(enc.table, enc.var) :
              /\ \A q \in Containing(enc.table, enc.var) : q[2] <= r[2]
              /\ enc.result = ECodeVar(enc.var.space, r[1], 8 * r[2],
                                       enc.var.generation)
        /\ Containing(enc.table, enc.var) = { <<enc.var.offset, enc.var.bits \div 8>> }
              => enc.result = enc.var
        /\ (enc.index.space_id = "register" /\ enc.var.offset = 0 /\ enc.var.bits = 8)
              => enc.result = ECodeVar("register", 0,
                                       IF <<0, 4>> \in enc.table THEN 32 ELSE 16,
                                       enc.var.generation)

----------------------------------------------------------------------------
(* Properties of the branch classifier                                      *)

\* the edges branch_targets gives for the statement at 0-based index i
EdgesAt(targets, i) ==
    { k \in 1..Len(targets) : targets[k][1] = i }

\* C11: branch_targets yields at least one classified edge for every
\* statement of the micro-op sequence, at every index, including assignments
\* and other non-control-flow statements that are not the last micro-op.
C11_EveryStmtClassified ==
    \A c \in 1..Len(lifts) :
        lifts[c].ok =>
            \A i \in 0..(Len(lifts[c].ecode.operations) - 1) :
                EdgesAt(branch_targets(lifts[c].ecode), i) # {}

\* the statements that transfer control
FlowKinds == {"Branch", "CBranch", "Call", "Return", "Intrinsic"}

\* C11 (amended): a statement yields at least one classified edge exactly
\* when it is a Branch, CBranch, Call, Return or Intrinsic, or is the last
\* micro-op; any other statement that is not the last yields none.
C11_FlowOrLastClassified ==
    \A c \in 1..Len(lifts) :
        lifts[c].ok =>
            LET ops == lifts[c].ecode.operations
            IN  \A i \in 0..(Len(ops) - 1) :
                    (EdgesAt(branch_targets(lifts[c].ecode), i) # {})
                        <=> (ops[i + 1].kind \in FlowKinds \/ i + 1 = Len(ops))

\* an assignment followed by a Return was lifted: only the Return has an edge
C11_Witness ==
    /\ Len(lifts) >= 1 /\ lifts[1].ok
    /\ lifts[1].ecode.operations = << StmtAssign, StmtReturn(TgtVar) >>
    /\ EdgesAt(branch_targets(lifts[1].ecode), 0) = {}
    /\ EdgesAt(branch_targets(lifts[1].ecode), 1) # {}

\* the classification of a Branch/CBranch target of an instruction at
\* `address` with `length`; the fall-through is the location
\* (address+length, 0), or any location at address+length
ClaimedBranch(tgt, address, length, any_position) ==
    IF tgt.kind = "Location"
    THEN IF tgt.loc.address = address THEN Target("IntraIns", tgt.loc, FALSE)
         ELSE IF \/ tgt.loc = Location(address + length, 0)
                 \/ any_position /\ tgt.loc.address = address + length
              THEN Target("IntraBlk", tgt.loc, FALSE)
              ELSE Target("InterBlk", tgt, FALSE)
    ELSE IF tgt.expr.kind = "Val" /\ tgt.expr.u64 # None
         THEN IF tgt.expr.u64 = address
              THEN Target("IntraIns", Location(address, 0), FALSE)
              ELSE IF tgt.expr.u64 = address + length
                   THEN Target("IntraBlk", Location(address + length, 0), FALSE)
                   ELSE Target("InterBlk", tgt, FALSE)
         ELSE Target("Unresolved", None, FALSE)

\* the first edge of every lifted Branch/CBranch is the classification above
BranchesClassified(any_position) ==
    \A c \in 1..Len(lifts) :
        lifts[c].ok =>
            LET e == lifts[c].ecode
                targets == branch_targets(e)
            IN  \A i \in 0..(Len(e.operations) - 1) :
                    e.operations[i + 1].kind \in {"Branch", "CBranch"} =>
                        /\ EdgesAt(targets, i) # {}
                        /\ LET k == CHOOSE x \in EdgesAt(targets, i) :
                                        \A y \in EdgesAt(targets, i) : x <= y
                           IN  targets[k][2] =
                                 ClaimedBranch(e.operations[i + 1].tgt,
                                               e.address, e.length, any_position)

ClaimedFall(ecode, i) ==
    IF i + 1 < Len(ecode.operations)
    THEN Target("IntraIns", Location(ecode.address, i + 1), FALSE)
    ELSE Target("IntraBlk", Location(ecode.address + ecode.length, 0), FALSE)

\* C24: branch_targets returns its edges in non-decreasing order of
\* statement index, and for every CBranch and every Call statement the edge
\* for the branch/call target comes immediately before that statement's
\* fall-through edge.
C24_EdgeOrder ==
    \A c \in 1..Len(lifts) :
        lifts[c].ok =>
            LET ecode == lifts[c].ecode
                ops == ecode.operations
                targets == branch_targets(ecode)
            IN  /\ \A k \in 1..(Len(targets) - 1) :
                      targets[k][1] <= targets[k + 1][1]
                /\ \A i \in 0..(Len(ops) - 1) :
                      ops[i + 1].kind \in {"CBranch", "Call"} =>
                          \E k \in 1..(Len(targets) - 1) :
                              /\ EdgesAt(targets, i) = {k, k + 1}
                              /\ targets[k][2] =
                                    (IF ops[i + 1].kind = "Call"
                                     THEN Target("InterSub", ops[i + 1].tgt, FALSE)
                                     ELSE ClaimedBranch(ops[i + 1].tgt, ecode.address,
                                                        ecode.length, TRUE))
                              /\ targets[k + 1][2] = ClaimedFall(ecode, i)

\* rep stos: the CBranch at index 0 gave the edges of its target and of its
\* fall-through, and the Branch at index 2 gave the last edge
C24_Witness ==
    \E c \in 1..Len(lifts) :
        /\ lifts[c].ok
        /\ Len(lifts[c].ecode.operations) = 3
        /\ lifts[c].ecode.operations[1].kind = "CBranch"
        /\ LET targets == branch_targets(lifts[c].ecode)
           IN  /\ Len(targets) = 3
               /\ targets[1][1] = 0 /\ targets[1][2].kind = "IntraBlk"
               /\ targets[2][1] = 0 /\ targets[2][2].kind = "IntraIns"
               /\ targets[3][1] = 2

----------------------------------------------------------------------------
(* Properties of Address arithmetic                                         *)

\* op applied to two unsigned integers, wrapped modulo m
IntArith(op, x, y, m) ==
    CASE op = "add" -> (x + y) % m
      [] op = "sub" -> (x - y + m) % m
      [] op = "mul" -> (x * y) % m
      [] op = "div" -> x \div y
      [] op = "rem" -> x % y

\* C13: for Addr operands a and b and each operator of + - * / %, with
\* b # 0 for / and %, in every by-value/by-reference operand combination,
\* the result has width max(width(a), width(b)) and equals the operator
\* applied to both operands zero-extended to that width, wrapping modulo
\* 2^max.
C13_WidthPromotion ==
    (/\ aop.op \in ArithOps
     /\ aop.mode \in {"vv", "vr", "rv", "rr"}
     /\ aop.op \in {"div", "rem"} => aop.b.val # 0)
    => LET w == Max(aop.a.bits, aop.b.bits)
       IN  /\ aop.res.tag = "Ok"
           /\ aop.res.addr.bits = w
           /\ aop.res.addr.val = IntArith(aop.op, aop.a.val, aop.b.val, Pow2(w))

\* the all-ones Address of width 2 plus the Address 1 of width 3 is the
\* Address 4 of width 3, in each operand combination (the 8- and 16-bit
\* example scaled)
C13_Witness ==
    /\ aop.op = "add" /\ aop.mode = "vv"
    /\ aop.a = SBV(2, 3, FALSE) /\ aop.b = SBV(3, 1, FALSE)
    /\ aop.res = Returned(SBV(3, 4, FALSE))

\* C14: for every Addr a and host integer n, a * n by value and &a * n by
\* reference both equal the product wrapped modulo 2^width(a), at width(a).
C14_MulUsize ==
    (aop.op = "mul" /\ aop.mode \in {"vu", "ru"})
    => aop.res = Returned(SBV(aop.a.bits, aop.a.val * aop.b.val, FALSE))

\* C15: every Addr reachable by construction followed by any sequence of
\* arithmetic operators, as_bits and into_bits is unsigned and has width
\* > 0; an operation that would create a zero-width Addr does not return
\* one.
C15_UnsignedNonZeroWidth ==
    /\ aop.res.tag = "Ok" => (aop.res.addr.bits > 0 /\ ~aop.res.addr.signed)
    /\ (aop.op \in {"as_bits", "into_bits"} /\ aop.b.bits = 0)
          => aop.res.tag # "Ok"

\* an Address built from a signed BitVec was resized to width 0: no Address
\* came back
C15_Witness ==
    /\ aop.op = "as_bits" /\ aop.b.bits = 0
    /\ aop.a.bits > 1 /\ aop.a.val > 0 /\ ~aop.a.signed
    /\ aop.res.tag = "panic"

\* C29: after set_zero() on an Addr is_zero() is true and the width is the
\* width the Addr had; after set_one() is_one() is true and the width is
\* the width the Addr had.
C29_SetZeroSetOne ==
    /\ aop.op = "set_zero" =>
          /\ aop.res.tag = "Ok"
          /\ is_zero(aop.res.addr)
          /\ aop.res.addr.bits = aop.a.bits
    /\ aop.op = "set_one" =>
          /\ aop.res.tag = "Ok"
          /\ is_one(aop.res.addr)
          /\ aop.res.addr.bits = aop.a.bits

=============================================================================
